---- MODULE Spec2Model ----
(***************************************************************************)
(* Model of the event-driven notification pipeline of cpp-chat-system:     *)
(* the API server's RabbitMQClient publisher, the broker topology it and   *)
(* the notification service declare, and the notification service's        *)
(* RabbitMQConsumer (handshake, consume loop, processEvent and the three   *)
(* e-mail handlers) together with the SMTPClient transport.                *)
(***************************************************************************)
EXTENDS Integers, Sequences, FiniteSets, TLC

(***************************************************************************)
(* Bounds of the model                                                     *)
(***************************************************************************)
\* messages that may enter notification_queue in one run
MaxMsgs == 2
\* receive timeouts in one run
MaxTimeouts == 2
\* request threads of the HTTP server
NumThreads == 2
\* HTTP requests served in one run
MaxRequests == 2

(***************************************************************************)
(* Character strings are sequences of one-character strings, so that       *)
(* std::string::empty and std::string::find can be computed.               *)
(***************************************************************************)
\* "a@b.com"
Str_ab == <<"a", "@", "b">>
\* "qa@x.com"
Str_qa == <<"q", "@", "x">>
\* an address without the "@" delimiter
Str_noat == <<"a", "b">>
\* ""
Str_empty == <<>>
\* the sentinel "unknown@example.com" of sendWelcomeEmail
UnknownEmail == <<"u", "@", "e">>
\* "User"
Str_User == <<"U">>
\* "0"
Str_zero == <<"0">>
\* the defaults of sendMessageNotification and sendRoomJoinNotification
Str_UnknownUser == <<"Unknown User">>
Str_UnknownRoom == <<"Unknown Room">>
Str_text == <<"text">>
Str_NA == <<"N/A">>
Str_member == <<"member">>
\* "587"
Str_587 == <<"5", "8", "7">>
\* "smtp.example.com", "mailer@example.com", "secret"
Str_host == <<"h">>
Str_user == <<"m", "@", "h">>
Str_pass == <<"p">>

\* std::string::find('@') != npos
ContainsAt(s) == \E i \in 1..Len(s) : s[i] = "@"

\* std::getenv: an unset variable is NULL, a set one is a C string
EnvUnset == [set |-> FALSE, val |-> <<>>]
EnvVal(s) == [set |-> TRUE, val |-> s]

Digits == <<"0", "1", "2", "3", "4", "5", "6", "7", "8", "9">>
IsDigit(c) == \E d \in 1..10 : Digits[d] = c
DigitValue(c) == (CHOOSE d \in 1..10 : Digits[d] = c) - 1

RECURSIVE AtoiFrom(_, _, _)
AtoiFrom(s, i, acc) ==
    IF i > Len(s) \/ ~IsDigit(s[i]) THEN acc
    ELSE AtoiFrom(s, i + 1, acc * 10 + DigitValue(s[i]))

\* std::atoi on the digits of SMTP_PORT
Atoi(s) == AtoiFrom(s, 1, 0)

\* the value of a JSON integer literal modulo 2^32, as two 16-bit halves
RECURSIVE WrapFrom(_, _, _, _)
WrapFrom(s, i, hi, lo) ==
    IF i > Len(s) THEN <<hi, lo>>
    ELSE LET l == lo * 10 + DigitValue(s[i])
         IN WrapFrom(s, i + 1, ((hi * 10) + (l \div 65536)) % 65536,
                     l % 65536)

\* basic_json::get<int> of a stored 64-bit integer: the low 32 bits as int
NumberToInt(s) ==
    LET w == WrapFrom(s, 1, 0, 0)
    IN IF w[1] >= 32768 THEN (w[1] - 65536) * 65536 + w[2]
       ELSE w[1] * 65536 + w[2]

RECURSIVE DigitsOf(_)
DigitsOf(n) ==
    IF n < 10 THEN <<Digits[n + 1]>>
    ELSE DigitsOf(n \div 10) \o <<Digits[(n % 10) + 1]>>

\* std::to_string(int)
to_string(n) == IF n >= 0 THEN DigitsOf(n) ELSE <<"-">> \o DigitsOf(-n)

\* std::string::find(sub) != npos
Contains(s, sub) ==
    \E i \in 1..(Len(s) - Len(sub) + 1) : SubSeq(s, i, i + Len(sub) - 1) = sub

(***************************************************************************)
(* JSON texts are token sequences: an object text is                       *)
(*   lbrace (key value)* rbrace                                            *)
(* and a value token is a string, a number or null.                        *)
(***************************************************************************)
Tok(k, s) == [k |-> k, s |-> s]
LBrace == Tok("lbrace", <<>>)
RBrace == Tok("rbrace", <<>>)
LBrack == Tok("lbrack", <<>>)
RBrack == Tok("rbrack", <<>>)
KeyTok(name) == Tok("key", <<name>>)
StrTok(s) == Tok("str", s)
IntTok(s) == Tok("int", s)

ValueKinds == {"str", "int", "null"}

\* the member tokens of an object text alternate key, value
WellFormedMembers(text) ==
    /\ Len(text) % 2 = 0
    /\ \A i \in 2..(Len(text) - 1) :
          IF i % 2 = 0 THEN text[i].k = "key" ELSE text[i].k \in ValueKinds

\* the value of the last member named name (nlohmann keeps the last duplicate)
LastMember(text, name) ==
    LET idx == {i \in 2..(Len(text) - 1) : i % 2 = 0 /\ text[i].s = <<name>>}
        last == CHOOSE i \in idx : \A j \in idx : j <= i
    IN text[last + 1]

MemberNames(text) == {text[i].s[1] : i \in {j \in 2..(Len(text) - 1) : j % 2 = 0}}

\* json::parse: ok = FALSE stands for json::parse_error
JsonParse(text) ==
    IF /\ Len(text) >= 2
       /\ text[1] = LBrace
       /\ text[Len(text)] = RBrace
       /\ WellFormedMembers(text)
    THEN [ok |-> TRUE, type |-> "object",
          names |-> MemberNames(text), text |-> text]
    ELSE IF text = <<LBrack, RBrack>>
    THEN [ok |-> TRUE, type |-> "array", names |-> {}, text |-> text]
    ELSE [ok |-> FALSE, type |-> "discarded", names |-> {}, text |-> text]

\* a lookup that takes an absent key for an error, as basic_json::at does
JsonValue_Required(j, name, default, kind) ==
    IF j.type # "object" THEN [exc |-> "type_error", v |-> default]
    ELSE IF name \notin j.names THEN [exc |-> "type_error", v |-> default]
    ELSE LET m == LastMember(j.text, name)
         IN IF m.k = kind THEN [exc |-> "none", v |-> m.s]
            ELSE [exc |-> "type_error", v |-> default]

\* basic_json::value(key, default): type_error 306 on a non-object,
\* the default when the key is absent, type_error 302 when the stored
\* value does not convert to the type of the default
JsonValue(j, name, default, kind) ==
    IF j.type # "object" THEN [exc |-> "type_error", v |-> default]
    ELSE IF name \notin j.names THEN [exc |-> "none", v |-> default]
    ELSE LET m == LastMember(j.text, name)
         IN IF m.k = kind THEN [exc |-> "none", v |-> m.s]
            ELSE [exc |-> "type_error", v |-> default]

(***************************************************************************)
(* Mail transport (SMTPClient)                                             *)
(***************************************************************************)
\* SMTPClient* smtpClient = nullptr
NullClient == [null |-> TRUE, smtpServer_ |-> <<>>, smtpPort_ |-> 0,
               username_ |-> <<>>, password_ |-> <<>>]

\* SMTPClient::SMTPClient
NewSMTPClient(host, port, user, pass) ==
    [null |-> FALSE, smtpServer_ |-> host, smtpPort_ |-> port,
     username_ |-> user, password_ |-> pass]

\* a validation that accepts any port
isConfigured_AnyPort(c) ==
    /\ c.smtpServer_ # <<>>
    /\ c.username_ # <<>>
    /\ c.password_ # <<>>

\* SMTPClient::isConfigured
isConfigured(c) ==
    /\ c.smtpServer_ # <<>>
    /\ c.username_ # <<>>
    /\ c.password_ # <<>>
    /\ c.smtpPort_ > 0

\* what curl does with one submission
SmtpOutcomes == {"ok", "curl_init_failed", "curl_error"}

\* SMTPClient::sendEmail: true only if curl_easy_perform reports CURLE_OK
sendEmail(outcome) == outcome = "ok"

(***************************************************************************)
(* Notification handlers.  A handler body yields the exception it throws   *)
(* (or "none"), the sendEmail calls it made and the lines it logged.       *)
(***************************************************************************)
Result(exc, mail, sim, logs) ==
    [exc |-> exc, mail |-> mail, sim |-> sim, logs |-> logs]

\* a call whose subject depends on how the previous submission went
MailCall_OutcomeInSubject(to, subject, body, outcome) ==
    [to |-> to, subject |-> subject \o <<outcome>>, body |-> body,
     sent |-> sendEmail(outcome)]

\* one smtpClient_->sendEmail(recipientEmail, subject, body) call
MailCall(to, subject, body, outcome) ==
    [to |-> to, subject |-> subject, body |-> body,
     sent |-> sendEmail(outcome)]

\* the first exception thrown by a sequence of value() extractions
FirstExc(rs) ==
    IF \E i \in 1..Len(rs) : rs[i].exc # "none"
    THEN rs[CHOOSE i \in 1..Len(rs) :
              /\ rs[i].exc # "none"
              /\ \A j \in 1..(i - 1) : rs[j].exc = "none"].exc
    ELSE "none"

\* a handler without its catch(const std::exception&) clause
Catches_ParseOnly(exc) == exc = "parse_error"

\* the catch clauses of a handler: json::parse_error, then std::exception
\* (json::type_error derives from std::exception)
Catches(exc) == exc \in {"parse_error", "type_error"}

\* try { body } catch(parse_error) {...} catch(std::exception) {...}
TryCatch(r, what) ==
    IF r.exc = "none" \/ ~Catches(r.exc) THEN r
    ELSE IF r.exc = "parse_error"
    THEN Result("none", r.mail, r.sim,
                r.logs \o <<"JSON parse error", "Payload">>)
    ELSE Result("none", r.mail, r.sim, r.logs \o <<what>>)

\* a subject that does not name the user
WelcomeSubject_Generic(username) == <<"Welcome to C++ Chat System!">>

\* sendWelcomeEmail: the subject and the body of the mail
WelcomeSubject(username) ==
    <<"Welcome to C++ Chat System, ">> \o username \o <<"!">>

WelcomeText(username, userId, recipientEmail) ==
    <<"Hello ">> \o username \o <<"! Your account (ID: ">>
        \o to_string(userId) \o <<") has been successfully created. ">>
        \o <<"Your email: ">> \o recipientEmail

\* a test like the one of the other two handlers: no "@" in the address
NoEmailProvided_NoAt(recipientEmail) == ~ContainsAt(recipientEmail)

\* sendWelcomeEmail's test of the recipient: it is the default of value()
NoEmailProvided(recipientEmail) == recipientEmail = UnknownEmail

\* the try block of sendWelcomeEmail
WelcomeBody(payload, outcome) ==
    LET j == JsonParse(payload) IN
    IF ~j.ok THEN Result("parse_error", <<>>, 0, <<>>)
    ELSE
      LET email == JsonValue(j, "email", UnknownEmail, "str")
          username == JsonValue(j, "username", Str_User, "str")
          userId == JsonValue(j, "user_id", Str_zero, "int")
          exc == FirstExc(<<email, username, userId>>)
      IN IF exc # "none" THEN Result(exc, <<>>, 0, <<>>)
         ELSE IF NoEmailProvided(email.v)
         THEN Result("none", <<>>, 0, <<"No email provided">>)
         ELSE Result("none",
                     <<MailCall(email.v, WelcomeSubject(username.v),
                                WelcomeText(username.v, NumberToInt(userId.v),
                                            email.v),
                                outcome)>>, 0,
                     <<IF sendEmail(outcome)
                       THEN "Welcome email sent successfully"
                       ELSE "Failed to send welcome email">>)

\* RabbitMQConsumer::sendWelcomeEmail
sendWelcomeEmail(payload, outcome) ==
    TryCatch(WelcomeBody(payload, outcome), "Error sending welcome email")

\* a resolution that ignores TEST_EMAIL_RECIPIENT
ResolveRecipient_SenderOnly(senderEmail, testRecipient) == senderEmail

\* the recipient of a message.created notification: the sender, or
\* TEST_EMAIL_RECIPIENT when it is set and non-empty
ResolveRecipient(senderEmail, testRecipient) ==
    IF testRecipient.set /\ Len(testRecipient.val) > 0
    THEN testRecipient.val
    ELSE senderEmail

\* sendMessageNotification: the subject and the body of the mail
MessageSubject(roomName) == <<"New message in ">> \o roomName

MessageText(roomName, roomId, senderUsername, messageType, message, messageId, timestamp) ==
    <<"Hello! You have a new message in one of your chat rooms. ">>
        \o <<"Room: ">> \o roomName \o <<" (ID: ">> \o to_string(roomId)
        \o <<") From: ">> \o senderUsername
        \o <<" Message Type: ">> \o messageType
        \o <<" Message: ">> \o message
        \o <<" Message ID: ">> \o to_string(messageId)
        \o <<" Timestamp: ">> \o timestamp

\* the try block of sendMessageNotification
MessageBody(payload, testRecipient, outcome) ==
    LET j == JsonParse(payload) IN
    IF ~j.ok THEN Result("parse_error", <<>>, 0, <<>>)
    ELSE
      LET messageId == JsonValue(j, "message_id", Str_zero, "int")
          roomId == JsonValue(j, "room_id", Str_zero, "int")
          senderUsername == JsonValue(j, "sender_username", Str_UnknownUser,
                                      "str")
          senderEmail == JsonValue(j, "sender_email", Str_empty, "str")
          roomName == JsonValue(j, "room_name", Str_UnknownRoom, "str")
          content == JsonValue(j, "content", Str_empty, "str")
          messageType == JsonValue(j, "message_type", Str_text, "str")
          exc == FirstExc(<<messageId, roomId, senderUsername, senderEmail,
                            roomName, content, messageType>>)
          recipientEmail == ResolveRecipient(senderEmail.v, testRecipient)
          timestamp == JsonValue(j, "timestamp", Str_NA, "str")
      IN IF exc # "none" THEN Result(exc, <<>>, 0, <<>>)
         ELSE IF recipientEmail = <<>> \/ ~ContainsAt(recipientEmail)
         THEN Result("none", <<>>, 0, <<"Invalid recipient email, skipping">>)
         ELSE IF timestamp.exc # "none"
         THEN Result(timestamp.exc, <<>>, 0, <<>>)
         ELSE Result("none",
                     <<MailCall(recipientEmail, MessageSubject(roomName.v),
                                MessageText(roomName.v, NumberToInt(roomId.v),
                                            senderUsername.v, messageType.v,
                                            content.v,
                                            NumberToInt(messageId.v),
                                            timestamp.v),
                                outcome)>>, 0,
                     <<IF sendEmail(outcome)
                       THEN "Message notification email sent successfully"
                       ELSE "Failed to send message notification email">>)

\* RabbitMQConsumer::sendMessageNotification
sendMessageNotification(payload, testRecipient, outcome) ==
    TryCatch(MessageBody(payload, testRecipient, outcome),
             "Error sending message notification email")

\* sendRoomJoinNotification: the subject and the body of the mail
RoomJoinSubject(roomName) == <<"You've been added to ">> \o roomName \o <<"!">>

RoomJoinText(username, roomName, roomId, role, userId, recipientEmail) ==
    <<"Hello ">> \o username
        \o <<"! You have been added to a new chat room. Name: ">>
        \o roomName \o <<" Room ID: ">> \o to_string(roomId)
        \o <<" Your Role: ">> \o role
        \o <<" User ID: ">> \o to_string(userId)
        \o <<" Email: ">> \o recipientEmail

\* the try block of sendRoomJoinNotification
RoomJoinBody(payload, outcome) ==
    LET j == JsonParse(payload) IN
    IF ~j.ok THEN Result("parse_error", <<>>, 0, <<>>)
    ELSE
      LET roomId == JsonValue(j, "room_id", Str_zero, "int")
          userId == JsonValue(j, "user_id", Str_zero, "int")
          roomName == JsonValue(j, "room_name", Str_UnknownRoom, "str")
          username == JsonValue(j, "username", Str_User, "str")
          userEmail == JsonValue(j, "user_email", Str_empty, "str")
          role == JsonValue(j, "role", Str_member, "str")
          exc == FirstExc(<<roomId, userId, roomName, username, userEmail,
                            role>>)
      IN IF exc # "none" THEN Result(exc, <<>>, 0, <<>>)
         ELSE IF userEmail.v = <<>> \/ ~ContainsAt(userEmail.v)
         THEN Result("none", <<>>, 0, <<"No valid email found in payload">>)
         ELSE Result("none",
                     <<MailCall(userEmail.v, RoomJoinSubject(roomName.v),
                                RoomJoinText(username.v, roomName.v,
                                             NumberToInt(roomId.v), role.v,
                                             NumberToInt(userId.v),
                                             userEmail.v),
                                outcome)>>, 0,
                     <<IF sendEmail(outcome)
                       THEN "Room join notification sent successfully"
                       ELSE "Failed to send room join notification">>)

\* a handler that submits a second time when the first submission failed
sendRoomJoinNotification_Retry(payload, outcome) ==
    LET r == TryCatch(RoomJoinBody(payload, outcome),
                      "Error sending room join notification")
    IN IF r.mail # <<>> /\ ~r.mail[1].sent
       THEN Result(r.exc, r.mail \o r.mail, r.sim, r.logs)
       ELSE r

\* RabbitMQConsumer::sendRoomJoinNotification
sendRoomJoinNotification(payload, outcome) ==
    TryCatch(RoomJoinBody(payload, outcome),
             "Error sending room join notification")

\* RabbitMQConsumer::simulateEmailSend with simulateEmailDelay
simulateEmailSend(routingKey) ==
    Result("none", <<>>, 1,
           <<"SMTP not configured - simulating email send",
             "Email simulated successfully">>)

\* a dispatcher that applies TEST_EMAIL_RECIPIENT to every event type
processEvent_OverrideAll(routingKey, payload, smtpClient, testRecipient, outcome) ==
    LET r == IF smtpClient.null \/ ~isConfigured(smtpClient)
             THEN simulateEmailSend(routingKey)
             ELSE IF routingKey = "user.registered"
             THEN sendWelcomeEmail(payload, outcome)
             ELSE IF routingKey = "message.created"
             THEN sendMessageNotification(payload, testRecipient, outcome)
             ELSE IF routingKey = "user.joined_room"
             THEN sendRoomJoinNotification(payload, outcome)
             ELSE Result("none", <<>>, 0, <<"Unknown event type">>)
    IN IF testRecipient.set /\ Len(testRecipient.val) > 0
       THEN Result(r.exc,
                   [k \in 1..Len(r.mail) |->
                       [r.mail[k] EXCEPT !.to = testRecipient.val]],
                   r.sim, r.logs)
       ELSE r

\* RabbitMQConsumer::processEvent
processEvent(routingKey, payload, smtpClient, testRecipient, outcome) ==
    IF smtpClient.null \/ ~isConfigured(smtpClient)
    THEN simulateEmailSend(routingKey)
    ELSE IF routingKey = "user.registered"
    THEN sendWelcomeEmail(payload, outcome)
    ELSE IF routingKey = "message.created"
    THEN sendMessageNotification(payload, testRecipient, outcome)
    ELSE IF routingKey = "user.joined_room"
    THEN sendRoomJoinNotification(payload, outcome)
    ELSE Result("none", <<>>, 0, <<"Unknown event type">>)

(***************************************************************************)
(* State                                                                   *)
(***************************************************************************)
VARIABLES
    \* broker
    exchangeDeclared,   \* chat_events exists
    queueDeclared,      \* notification_queue exists
    bindings,           \* routing keys binding the queue to chat_events
    subscribed,         \* a consumer is registered on the queue
    queue,              \* messages held in notification_queue
    published,          \* number of messages that entered the queue
    \* notification service
    cpc,                \* position of the notification process
    smtpClient_,        \* RabbitMQConsumer::smtpClient_
    testRecipient,      \* TEST_EMAIL_RECIPIENT
    connected_,         \* RabbitMQConsumer::connected_
    conn_,              \* RabbitMQConsumer::conn_ is not null
    handshake,          \* the broker calls of the constructor and their results
    result,             \* reply of the last amqp_consume_message
    envelope,           \* the message of that reply
    deliveries,         \* ids of the messages handed over by the broker
    dispatchLog,        \* one entry per processEvent call
    heartbeats,         \* "No messages (timeout), waiting..." lines
    exitStatus,         \* status of the notification process, -1 while it runs
    \* API server
    pub_connected_,     \* RabbitMQClient::connected_
    pub_conn_,          \* RabbitMQClient::conn_ is not null
    pub_socket_,        \* RabbitMQClient::socket_ is not null
    tpc,                \* position of each request thread
    treq,               \* routing key of the event each thread publishes
    raced,              \* a thread's publish overlapped another one
    requests,           \* requests accepted so far
    publishLog,         \* one entry per publishEvent call
    pubHandshake,       \* the broker calls of the publisher's constructor
    users,              \* usernames in table users
    members,            \* <<room, user>> rows of table room_members
    messages,           \* number of rows of table messages
    targ,               \* the request each thread is handling
    responses           \* the HTTP responses sent so far

brokerVars == <<exchangeDeclared, queueDeclared, bindings, subscribed, queue,
                published>>
consumerVars == <<cpc, smtpClient_, testRecipient, connected_, conn_,
                  handshake, result, envelope, deliveries, dispatchLog,
                  heartbeats, exitStatus>>
apiVars == <<pub_connected_, pub_conn_, pub_socket_, tpc, treq, raced,
             requests, publishLog, pubHandshake, users, members, messages, targ, responses>>
vars == <<brokerVars, consumerVars, apiVars>>

Threads == 1..NumThreads

\* the three routing keys the producer uses and the consumer binds
RoutingKeys == {"user.registered", "message.created", "user.joined_room"}
\* the name of the queue, and so its routing key on the default exchange
QueueName == "notification_queue"

NoMsg == [id |-> 0, rk |-> "", body |-> <<>>]

\* the broker calls of RabbitMQConsumer::RabbitMQConsumer, in program order
HandshakeSteps ==
    <<"socket_new", "socket_open", "login", "channel_open",
      "exchange_declare", "queue_declare", "bind_user.registered",
      "bind_message.created", "bind_user.joined_room", "basic_consume">>

\* the calls whose reply the constructor tests
CheckedSteps ==
    {"socket_new", "socket_open", "login", "channel_open",
     "exchange_declare", "queue_declare", "basic_consume"}

StepIndex(step) == CHOOSE i \in 1..Len(HandshakeSteps) : HandshakeSteps[i] = step
IsHandshakeStep(pc) == \E i \in 1..Len(HandshakeSteps) : HandshakeSteps[i] = pc

\* the routing key a bind step binds, "" for the other steps
BoundKey(step) ==
    IF step = "bind_user.registered" THEN "user.registered"
    ELSE IF step = "bind_message.created" THEN "message.created"
    ELSE IF step = "bind_user.joined_room" THEN "user.joined_room"
    ELSE ""

(***************************************************************************)
(* Inputs                                                                  *)
(***************************************************************************)
\* SMTP_HOST, SMTP_PORT, SMTP_USER, SMTP_PASSWORD
SmtpEnvs ==
    { [host |-> EnvVal(Str_host), port |-> EnvVal(Str_587),
       user |-> EnvVal(Str_user), pass |-> EnvVal(Str_pass)],
      [host |-> EnvUnset, port |-> EnvUnset,
       user |-> EnvUnset, pass |-> EnvUnset],
      [host |-> EnvVal(Str_host), port |-> EnvVal(Str_587),
       user |-> EnvVal(Str_user), pass |-> EnvUnset],
      [host |-> EnvVal(Str_host), port |-> EnvVal(<<"x">>),
       user |-> EnvVal(Str_user), pass |-> EnvVal(Str_pass)],
      [host |-> EnvVal(Str_host), port |-> EnvVal(Str_zero),
       user |-> EnvVal(Str_user), pass |-> EnvVal(Str_pass)],
      [host |-> EnvVal(Str_empty), port |-> EnvVal(Str_587),
       user |-> EnvVal(Str_user), pass |-> EnvVal(Str_pass)],
      [host |-> EnvVal(Str_host), port |-> EnvVal(Str_587),
       user |-> EnvVal(Str_user), pass |-> EnvVal(Str_empty)] }

TestRecipients == {EnvUnset, EnvVal(Str_qa)}

\* an object text whose three recipient fields all carry v
RecipientObject(v) ==
    <<LBrace, KeyTok("email"), v, KeyTok("sender_email"), v,
      KeyTok("user_email"), v, RBrace>>

Body_valid == RecipientObject(StrTok(Str_ab))
Body_noat == RecipientObject(StrTok(Str_noat))
Body_badtype == RecipientObject(IntTok(<<"5">>))
\* a text cut off in the middle of an object
Body_malformed == <<LBrace, KeyTok("email")>>

Msg(rk, body) == [rk |-> rk, body |-> body]

\* what other clients of the broker publish to chat_events
ForeignMsgs ==
    { Msg("user.registered", Body_valid),
      Msg("user.registered", Body_badtype),
      Msg("message.created", Body_valid),
      Msg("message.created", Body_malformed),
      Msg("user.joined_room", Body_valid),
      Msg("user.joined_room", Body_noat),
      Msg("room.deleted", Body_valid) }

\* what other clients publish to the default exchange for this queue
DirectBodies == {Body_valid}

\* TEST_EMAIL_RECIPIENT as one dispatch can find it: unset, empty, an address
DispatchOverrides == {EnvUnset, EnvVal(Str_empty), EnvVal(Str_qa)}

\* an object without any recipient field
Body_missing == <<LBrace, RBrace>>
Body_empty == RecipientObject(StrTok(Str_empty))
Body_sentinel == RecipientObject(StrTok(UnknownEmail))

\* "alice", and the user ids 7 and 2^31 + 7
Str_alice == <<"a", "l", "i">>
Str_seven == <<"7">>
Str_bigid == <<"2", "1", "4", "7", "4", "8", "3", "6", "5", "5">>

\* a user.registered payload with email, username and user_id
UserObject(email, id) ==
    <<LBrace, KeyTok("email"), StrTok(email), KeyTok("username"),
      StrTok(Str_alice), KeyTok("user_id"), IntTok(id), RBrace>>

Body_alice == UserObject(Str_ab, Str_seven)
Body_aliceSentinel == UserObject(UnknownEmail, Str_seven)
Body_aliceBigId == UserObject(Str_ab, Str_bigid)
\* {"email": "a@b.com", "username": 5, "user_id": 7}
Body_aliceBadName ==
    <<LBrace, KeyTok("email"), StrTok(Str_ab), KeyTok("username"),
      IntTok(<<"5">>), KeyTok("user_id"), IntTok(Str_seven), RBrace>>

\* a message.created payload with every field the handler reads
Body_message ==
    <<LBrace, KeyTok("message_id"), IntTok(<<"4">>),
      KeyTok("room_id"), IntTok(<<"1">>),
      KeyTok("sender_username"), StrTok(Str_alice),
      KeyTok("sender_email"), StrTok(Str_ab),
      KeyTok("room_name"), StrTok(<<"g", "e", "n">>),
      KeyTok("content"), StrTok(<<"h", "i">>),
      KeyTok("message_type"), StrTok(<<"image">>),
      KeyTok("timestamp"), StrTok(<<"2", "0">>), RBrace>>
\* the same without message_id, sender_username, message_type, timestamp
Body_messagePart ==
    <<LBrace, KeyTok("room_id"), IntTok(<<"1">>),
      KeyTok("sender_email"), StrTok(Str_ab),
      KeyTok("room_name"), StrTok(<<"g", "e", "n">>),
      KeyTok("content"), StrTok(<<"h", "i">>), RBrace>>
\* nothing but fields the handler does not use as the recipient
Body_messageNoSender ==
    <<LBrace, KeyTok("room_name"), StrTok(<<"g", "e", "n">>), RBrace>>

\* the payloads one dispatch is checked on
DispatchBodies ==
    {Body_valid, Body_noat, Body_empty, Body_missing, Body_sentinel,
     Body_badtype, Body_malformed, Body_alice, Body_aliceSentinel,
     Body_aliceBigId, Body_aliceBadName, Body_message, Body_messagePart,
     Body_messageNoSender}

\* the user names requests speak of; "testuser" is the row of init.sql
UserNames == {"testuser", "bob"}
InitUsers == {"testuser"}
\* the room ids requests speak of; 1 is the "general" room of init.sql
RoomIds == {1, 2}
rooms == {1}

\* no request in hand
NoRequest == [kind |-> "", form |-> "", user |-> "", room |-> 0]

Init ==
    /\ exchangeDeclared = FALSE
    /\ queueDeclared = FALSE
    /\ bindings = {}
    /\ subscribed = FALSE
    /\ queue = <<>>
    /\ published = 0
    /\ cpc = "main"
    /\ smtpClient_ = NullClient
    /\ testRecipient \in TestRecipients
    /\ connected_ = FALSE
    /\ conn_ = FALSE
    /\ handshake = <<>>
    /\ result = "none"
    /\ envelope = NoMsg
    /\ deliveries = <<>>
    /\ dispatchLog = <<>>
    /\ heartbeats = 0
    /\ exitStatus = -1
    /\ pub_connected_ = FALSE
    /\ pub_conn_ = FALSE
    /\ pub_socket_ = FALSE
    /\ tpc = [t \in Threads |-> "start"]
    /\ treq = [t \in Threads |-> ""]
    /\ raced = [t \in Threads |-> FALSE]
    /\ requests = 0
    /\ publishLog = <<>>
    /\ pubHandshake = <<>>
    /\ users = InitUsers
    /\ members = {}
    /\ messages = 0
    /\ targ = [t \in Threads |-> NoRequest]
    /\ responses = <<>>

(***************************************************************************)
(* Broker                                                                  *)
(***************************************************************************)
\* a broker that matches binding keys as patterns: any key reaches a queue
\* that has a binding
Routes_AnyKey(rk) == exchangeDeclared /\ queueDeclared /\ bindings # {}

\* a topic exchange routes a key without wildcards by exact match
Routes(rk) == exchangeDeclared /\ queueDeclared /\ rk \in bindings

Enqueue(rk, body) ==
    /\ published < MaxMsgs
    /\ published' = published + 1
    /\ queue' = Append(queue, [id |-> published + 1, rk |-> rk, body |-> body])

\* another client publishes to chat_events
ForeignPublish(m) ==
    /\ Routes(m.rk)
    /\ Enqueue(m.rk, m.body)
    /\ UNCHANGED <<exchangeDeclared, queueDeclared, bindings, subscribed>>
    /\ UNCHANGED <<consumerVars, apiVars>>

\* another client publishes to the default exchange, which routes to the
\* queue named by the routing key
DirectPublish(body) ==
    /\ queueDeclared
    /\ Enqueue(QueueName, body)
    /\ UNCHANGED <<exchangeDeclared, queueDeclared, bindings, subscribed>>
    /\ UNCHANGED <<consumerVars, apiVars>>

\* a delivery that leaves the message at the head of the queue
AfterDelivery_Requeue(q) == q

\* what a delivery leaves in the queue for a consumer registered with
\* no_ack = 1: the message is gone at hand-over
AfterDelivery(q) == Tail(q)

(***************************************************************************)
(* Notification service: main and RabbitMQConsumer                         *)
(***************************************************************************)
\* main: the SMTP client built from the environment, or nullptr
ConfiguredClient(env) ==
    IF env.host.set /\ env.port.set /\ env.user.set /\ env.pass.set
    THEN LET c == NewSMTPClient(env.host.val, Atoi(env.port.val),
                                env.user.val, env.pass.val)
         IN IF isConfigured(c) THEN c ELSE NullClient
    ELSE NullClient

\* main up to the construction of the consumer
MainConfigureSmtp(env) ==
    /\ cpc = "main"
    /\ smtpClient_' = ConfiguredClient(env)
    /\ cpc' = HandshakeSteps[1]
    /\ UNCHANGED <<testRecipient, connected_, conn_, handshake, result,
                   envelope, deliveries, dispatchLog, heartbeats, exitStatus>>
    /\ UNCHANGED <<brokerVars, apiVars>>

\* where the constructor goes after a broker call: it returns when a tested
\* reply is a failure or after the last call, and goes on otherwise
AfterStep(step, ok) ==
    IF (~ok /\ step \in CheckedSteps) \/ StepIndex(step) = Len(HandshakeSteps)
    THEN "constructed"
    ELSE HandshakeSteps[StepIndex(step) + 1]

\* one broker call of RabbitMQConsumer::RabbitMQConsumer
HandshakeStep(ok) ==
    /\ IsHandshakeStep(cpc)
    /\ handshake' = Append(handshake, [step |-> cpc, ok |-> ok])
    /\ conn_' = TRUE
    /\ exchangeDeclared' = (exchangeDeclared \/ (ok /\ cpc = "exchange_declare"))
    /\ queueDeclared' = (queueDeclared \/ (ok /\ cpc = "queue_declare"))
    /\ bindings' = IF ok /\ BoundKey(cpc) # ""
                   THEN bindings \cup {BoundKey(cpc)} ELSE bindings
    /\ subscribed' = (subscribed \/ (ok /\ cpc = "basic_consume"))
    /\ connected_' = (ok /\ cpc = "basic_consume")
    /\ cpc' = AfterStep(cpc, ok)
    /\ UNCHANGED <<queue, published>>
    /\ UNCHANGED <<smtpClient_, testRecipient, result, envelope, deliveries,
                   dispatchLog, heartbeats, exitStatus>>
    /\ UNCHANGED apiVars

\* RabbitMQConsumer::isConnected
isConnected == connected_

\* main without the isConnected test: startConsuming is called regardless
MainCheckConnected_NoExit ==
    /\ cpc = "constructed"
    /\ cpc' = IF ~connected_ \/ ~conn_ THEN "returned" ELSE "receive"
    /\ UNCHANGED brokerVars
    /\ UNCHANGED <<smtpClient_, testRecipient, connected_, conn_, handshake,
                   result, envelope, deliveries, dispatchLog, heartbeats,
                   exitStatus>>
    /\ UNCHANGED apiVars

\* main after the construction: exit 1 when not connected, else
\* startConsuming, which returns at once unless connected_ and conn_
MainCheckConnected ==
    /\ cpc = "constructed"
    /\ IF ~isConnected
       THEN /\ exitStatus' = 1
            /\ cpc' = "exited"
            /\ subscribed' = FALSE
       ELSE /\ exitStatus' = exitStatus
            /\ cpc' = IF ~connected_ \/ ~conn_ THEN "returned" ELSE "receive"
            /\ subscribed' = subscribed
    /\ UNCHANGED <<exchangeDeclared, queueDeclared, bindings, queue, published>>
    /\ UNCHANGED <<smtpClient_, testRecipient, connected_, conn_, handshake,
                   result, envelope, deliveries, dispatchLog, heartbeats>>
    /\ UNCHANGED apiVars

\* the replies of amqp_consume_message
ConsumeReplies == {"normal", "timeout", "library_error", "unexpected"}

\* a loop that asks for the next message while the previous one is still
\* waiting for processEvent
ConsumeMessage_Prefetch(reply) ==
    /\ cpc \in {"receive", "reply"}
    /\ IF reply = "normal"
       THEN /\ subscribed
            /\ queue # <<>>
            /\ envelope' = Head(queue)
            /\ queue' = AfterDelivery(queue)
            /\ deliveries' = Append(deliveries, Head(queue).id)
       ELSE /\ reply = "timeout" => heartbeats < MaxTimeouts
            /\ UNCHANGED <<envelope, queue, deliveries>>
    /\ result' = reply
    /\ cpc' = "reply"
    /\ UNCHANGED <<exchangeDeclared, queueDeclared, bindings, subscribed,
                   published>>
    /\ UNCHANGED <<smtpClient_, testRecipient, connected_, conn_, handshake,
                   dispatchLog, heartbeats, exitStatus>>
    /\ UNCHANGED apiVars

\* startConsuming: amqp_consume_message with the 5 second timeout
ConsumeMessage(reply) ==
    /\ cpc = "receive"
    /\ IF reply = "normal"
       THEN /\ subscribed
            /\ queue # <<>>
            /\ envelope' = Head(queue)
            /\ queue' = AfterDelivery(queue)
            /\ deliveries' = Append(deliveries, Head(queue).id)
       ELSE /\ reply = "timeout" => heartbeats < MaxTimeouts
            /\ UNCHANGED <<envelope, queue, deliveries>>
    /\ result' = reply
    /\ cpc' = "reply"
    /\ UNCHANGED <<exchangeDeclared, queueDeclared, bindings, subscribed,
                   published>>
    /\ UNCHANGED <<smtpClient_, testRecipient, connected_, conn_, handshake,
                   dispatchLog, heartbeats, exitStatus>>
    /\ UNCHANGED apiVars

\* a loop that drops a message with a routing key it has no handler for
\* without handing it to processEvent
DispatchEvent_SkipUnknown(outcome) ==
    /\ cpc = "reply"
    /\ result = "normal"
    /\ LET r == processEvent(envelope.rk, envelope.body, smtpClient_,
                             testRecipient, outcome)
       IN /\ dispatchLog' = IF envelope.rk \in RoutingKeys
                            THEN Append(dispatchLog,
                                   [msg |-> envelope, exc |-> r.exc,
                                    mail |-> r.mail, sim |-> r.sim,
                                    logs |-> r.logs])
                            ELSE dispatchLog
          /\ cpc' = IF r.exc = "none" THEN "receive" ELSE "aborted"
    /\ envelope' = NoMsg
    /\ result' = "none"
    /\ UNCHANGED <<smtpClient_, testRecipient, connected_, conn_, handshake,
                   deliveries, heartbeats, exitStatus>>
    /\ UNCHANGED <<brokerVars, apiVars>>

\* startConsuming on AMQP_RESPONSE_NORMAL: processEvent, then the next
\* iteration; an exception leaving processEvent leaves main as well
DispatchEvent(outcome) ==
    /\ cpc = "reply"
    /\ result = "normal"
    /\ LET r == processEvent(envelope.rk, envelope.body, smtpClient_,
                             testRecipient, outcome)
       IN /\ dispatchLog' = Append(dispatchLog,
                 [msg |-> envelope, exc |-> r.exc, mail |-> r.mail,
                  sim |-> r.sim, logs |-> r.logs])
          /\ cpc' = IF r.exc = "none" THEN "receive" ELSE "aborted"
    /\ envelope' = NoMsg
    /\ result' = "none"
    /\ UNCHANGED <<smtpClient_, testRecipient, connected_, conn_, handshake,
                   deliveries, heartbeats, exitStatus>>
    /\ UNCHANGED <<brokerVars, apiVars>>

\* a timeout branch that leaves the loop
HandleTimeout_Break ==
    /\ cpc = "reply"
    /\ result = "timeout"
    /\ heartbeats' = heartbeats + 1
    /\ cpc' = "returned"
    /\ UNCHANGED <<smtpClient_, testRecipient, connected_, conn_, handshake,
                   result, envelope, deliveries, dispatchLog, exitStatus>>
    /\ UNCHANGED <<brokerVars, apiVars>>

\* startConsuming on AMQP_STATUS_TIMEOUT: the heartbeat line
HandleTimeout ==
    /\ cpc = "reply"
    /\ result = "timeout"
    /\ heartbeats' = heartbeats + 1
    /\ cpc' = "receive"
    /\ result' = "none"
    /\ UNCHANGED <<smtpClient_, testRecipient, connected_, conn_, handshake,
                   envelope, deliveries, dispatchLog, exitStatus>>
    /\ UNCHANGED <<brokerVars, apiVars>>

\* an error branch without the break: the loop receives again
HandleBrokerError_Continue ==
    /\ cpc = "reply"
    /\ result \in {"library_error", "unexpected"}
    /\ cpc' = "receive"
    /\ result' = "none"
    /\ UNCHANGED <<smtpClient_, testRecipient, connected_, conn_, handshake,
                   envelope, deliveries, dispatchLog, heartbeats, exitStatus>>
    /\ UNCHANGED <<brokerVars, apiVars>>

\* startConsuming on any other reply: break
HandleBrokerError ==
    /\ cpc = "reply"
    /\ result \in {"library_error", "unexpected"}
    /\ cpc' = "returned"
    /\ UNCHANGED <<smtpClient_, testRecipient, connected_, conn_, handshake,
                   result, envelope, deliveries, dispatchLog, heartbeats,
                   exitStatus>>
    /\ UNCHANGED <<brokerVars, apiVars>>

\* main after startConsuming has returned: return 0
MainReturn ==
    /\ cpc = "returned"
    /\ exitStatus' = 0
    /\ cpc' = "exited"
    /\ subscribed' = FALSE
    /\ UNCHANGED <<exchangeDeclared, queueDeclared, bindings, queue, published>>
    /\ UNCHANGED <<smtpClient_, testRecipient, connected_, conn_, handshake,
                   result, envelope, deliveries, dispatchLog, heartbeats>>
    /\ UNCHANGED apiVars

(***************************************************************************)
(* API server: RabbitMQClient, the database and the request threads        *)
(***************************************************************************)
\* the broker calls of RabbitMQClient::RabbitMQClient; "none" = all succeed
PublisherFailures ==
    {"none", "socket_new", "socket_open", "login", "channel_open",
     "exchange_declare"}

\* those calls in program order
PublisherSteps ==
    <<"socket_new", "socket_open", "login", "channel_open",
      "exchange_declare">>

\* the calls the constructor makes, and their results, when call `failed`
\* fails: it returns at the first failure
PublisherHandshake(failed) ==
    LET n == IF failed = "none" THEN Len(PublisherSteps)
             ELSE CHOOSE i \in 1..Len(PublisherSteps) :
                      PublisherSteps[i] = failed
    IN [i \in 1..n |-> [step |-> PublisherSteps[i],
                        ok |-> PublisherSteps[i] # failed]]

\* a main that gives up when the publisher is not connected
PublisherConnect_Abort(failed) ==
    /\ \A t \in Threads : tpc[t] = "start"
    /\ pubHandshake' = PublisherHandshake(failed)
    /\ pub_connected_' = (failed = "none")
    /\ pub_conn_' = TRUE
    /\ pub_socket_' = (failed # "socket_new")
    /\ exchangeDeclared' = (exchangeDeclared \/ failed = "none")
    /\ tpc' = [t \in Threads |-> IF failed = "none" THEN "idle" ELSE "exited"]
    /\ UNCHANGED <<queueDeclared, bindings, subscribed, queue, published>>
    /\ UNCHANGED <<treq, raced, requests, publishLog, users, members,
                   messages, targ, responses>>
    /\ UNCHANGED consumerVars

\* main of the API server: the publisher is constructed, then the server
\* listens whether or not the publisher is connected
PublisherConnect(failed) ==
    /\ \A t \in Threads : tpc[t] = "start"
    /\ pubHandshake' = PublisherHandshake(failed)
    /\ pub_connected_' = (failed = "none")
    /\ pub_conn_' = TRUE
    /\ pub_socket_' = (failed # "socket_new")
    /\ exchangeDeclared' = (exchangeDeclared \/ failed = "none")
    /\ tpc' = [t \in Threads |-> "idle"]
    /\ UNCHANGED <<queueDeclared, bindings, subscribed, queue, published>>
    /\ UNCHANGED <<treq, raced, requests, publishLog, users, members,
                   messages, targ, responses>>
    /\ UNCHANGED consumerVars

\* how a request body fares in the handler's validation: it passes, it is
\* rejected, or a field has a type that makes the json accessor throw
RequestForms == {"ok", "invalid", "wrong_type"}

\* POST /api/register, POST /api/rooms/:id/messages and
\* POST /api/rooms/:id/members, named by the event they publish
Requests ==
    [kind : RoutingKeys, form : RequestForms, user : UserNames,
     room : RoomIds]

\* the status of the handler's early return, 0 when it goes on to the write
EarlyStatus(req) ==
    IF req.form = "invalid" THEN 400
    ELSE IF req.kind = "user.registered"
    THEN IF req.form = "wrong_type" THEN 500
         ELSE IF req.user \in users THEN 409
         ELSE 0
    ELSE IF req.kind = "message.created"
    THEN IF req.room \notin rooms THEN 404
         ELSE IF req.form = "wrong_type" THEN 500
         ELSE IF req.user \notin users THEN 404
         ELSE IF <<req.room, req.user>> \notin members THEN 403
         ELSE 0
    ELSE IF req.form = "wrong_type" THEN 500
         ELSE IF req.room \notin rooms THEN 404
         ELSE IF req.user \notin users THEN 404
         ELSE IF <<req.room, req.user>> \in members THEN 409
         ELSE 0

SuccessStatus(kind) == IF kind = "user.joined_room" THEN 200 ELSE 201

SuccessBody(kind) ==
    IF kind = "user.registered" THEN "User registered successfully"
    ELSE IF kind = "message.created" THEN "Message sent successfully"
    ELSE "User added to room successfully"

\* a response as the client sees it; pub notes what the request's
\* publishEvent call came to ("none" when there was no call)
Response(kind, status, body, pub) ==
    [kind |-> kind, status |-> status, body |-> body, pub |-> pub]

\* registerUser, sendMessage, addUserToRoom from the parse of the body to
\* the last check before the write: an early return answers with an error
HandleRequest(t, req) ==
    /\ tpc[t] = "idle"
    /\ requests < MaxRequests
    /\ requests' = requests + 1
    /\ IF EarlyStatus(req) # 0
       THEN /\ responses' = Append(responses,
                  Response(req.kind, EarlyStatus(req), "error", "none"))
            /\ UNCHANGED <<tpc, targ>>
       ELSE /\ tpc' = [tpc EXCEPT ![t] = "write"]
            /\ targ' = [targ EXCEPT ![t] = req]
            /\ UNCHANGED responses
    /\ UNCHANGED <<pub_connected_, pub_conn_, pub_socket_, pubHandshake,
                   treq, raced, publishLog,
                   users, members, messages>>
    /\ UNCHANGED <<brokerVars, consumerVars>>

\* a users table without the UNIQUE constraint on username: the insert
\* succeeds whenever the statement runs
createUser_NoUnique(name, ok) == ok

\* Database::createUser: the row is inserted unless the statement fails or
\* the username exists (UNIQUE)
createUser(name, ok) == ok /\ name \notin users

\* Database::addUserToRoom: INSERT ... ON CONFLICT DO NOTHING reports
\* success whether or not a row was inserted
addUserToRoom(room, name, ok) == ok

\* Database::createMessage
createMessage(ok) == ok

\* what the write of a request can come to; registerUser fills in an empty
\* std::optional<User> first, which is undefined and may end the process
DbOutcomes(kind) ==
    IF kind = "user.registered" THEN {"ok", "db_error", "crash"}
    ELSE {"ok", "db_error"}

\* whether the write of thread t's request reports success
WriteSucceeds(t, out) ==
    IF targ[t].kind = "user.registered"
    THEN createUser(targ[t].user, out = "ok")
    ELSE IF targ[t].kind = "message.created"
    THEN createMessage(out = "ok")
    ELSE addUserToRoom(targ[t].room, targ[t].user, out = "ok")

\* the tables after the write of thread t's request
WriteEffect(t, out) ==
    /\ users' = IF targ[t].kind = "user.registered" /\ WriteSucceeds(t, out)
                THEN users \cup {targ[t].user} ELSE users
    /\ members' = IF targ[t].kind = "user.joined_room" /\ out = "ok"
                  THEN members \cup {<<targ[t].room, targ[t].user>>}
                  ELSE members
    /\ messages' = IF targ[t].kind = "message.created"
                      /\ WriteSucceeds(t, out)
                   THEN messages + 1 ELSE messages

\* a handler that goes on to publish whatever the write returned
DbWrite_PublishAnyway(t, out) ==
    /\ tpc[t] = "write"
    /\ out \in DbOutcomes(targ[t].kind)
    /\ IF out = "crash"
       THEN /\ tpc' = [u \in Threads |-> "crashed"]
            /\ UNCHANGED <<users, members, messages, treq, targ, responses>>
       ELSE /\ WriteEffect(t, out)
            /\ tpc' = [tpc EXCEPT ![t] = "publishEvent"]
            /\ treq' = [treq EXCEPT ![t] = targ[t].kind]
            /\ UNCHANGED <<targ, responses>>
    /\ UNCHANGED <<pub_connected_, pub_conn_, pub_socket_, pubHandshake,
                   raced, requests, publishLog>>
    /\ UNCHANGED <<brokerVars, consumerVars>>

\* the handlers' database write and the test of its result: an error
\* response on failure, else the event is built and publishEvent called
DbWrite(t, out) ==
    /\ tpc[t] = "write"
    /\ out \in DbOutcomes(targ[t].kind)
    /\ IF out = "crash"
       THEN /\ tpc' = [u \in Threads |-> "crashed"]
            /\ UNCHANGED <<users, members, messages, treq, targ, responses>>
       ELSE /\ WriteEffect(t, out)
            /\ IF WriteSucceeds(t, out)
               THEN /\ tpc' = [tpc EXCEPT ![t] = "publishEvent"]
                    /\ treq' = [treq EXCEPT ![t] = targ[t].kind]
                    /\ UNCHANGED <<targ, responses>>
               ELSE /\ tpc' = [tpc EXCEPT ![t] = "idle"]
                    /\ targ' = [targ EXCEPT ![t] = NoRequest]
                    /\ responses' = Append(responses,
                          Response(targ[t].kind, 500, "error", "none"))
                    /\ UNCHANGED treq
    /\ UNCHANGED <<pub_connected_, pub_conn_, pub_socket_, pubHandshake,
                   raced, requests, publishLog>>
    /\ UNCHANGED <<brokerVars, consumerVars>>

\* "test@example.com", the address of the user row of init.sql
Str_test == <<"t", "@", "e">>

\* users.email: testuser has the address of init.sql; bob registers with the
\* address "unknown@example.com"
EmailOf(name) == IF name = "testuser" THEN Str_test ELSE UnknownEmail

\* the event a handler builds for a stored row, as dumped by publishEvent
EventBody(rk, name) ==
    IF rk = "user.registered"
    THEN <<LBrace, KeyTok("event_type"), StrTok(<<"r">>),
           KeyTok("user_id"), IntTok(<<"7">>),
           KeyTok("username"), StrTok(<<name>>),
           KeyTok("email"), StrTok(EmailOf(name)),
           KeyTok("timestamp"), StrTok(<<"t">>), RBrace>>
    ELSE IF rk = "message.created"
    THEN <<LBrace, KeyTok("event_type"), StrTok(<<"c">>),
           KeyTok("message_id"), IntTok(<<"1">>),
           KeyTok("room_id"), IntTok(<<"1">>),
           KeyTok("user_id"), IntTok(<<"7">>),
           KeyTok("sender_username"), StrTok(<<name>>),
           KeyTok("sender_email"), StrTok(EmailOf(name)),
           KeyTok("room_name"), StrTok(<<"g">>),
           KeyTok("content"), StrTok(<<"h", "i">>),
           KeyTok("message_type"), StrTok(<<"t">>),
           KeyTok("timestamp"), StrTok(<<"t">>), RBrace>>
    ELSE <<LBrace, KeyTok("event_type"), StrTok(<<"j">>),
           KeyTok("room_id"), IntTok(<<"1">>),
           KeyTok("user_id"), IntTok(<<"7">>),
           KeyTok("room_name"), StrTok(<<"g">>),
           KeyTok("username"), StrTok(<<name>>),
           KeyTok("user_email"), StrTok(EmailOf(name)),
           KeyTok("role"), StrTok(<<"m">>), RBrace>>

\* an amqp_basic_publish that marks the message transient
BasicPublish_Transient(routingKey, messageBody) ==
    [channel |-> 1, exchange |-> "chat_events", routing_key |-> routingKey,
     mandatory |-> 0, immediate |-> 0, content_type |-> "application/json",
     delivery_mode |-> 1, body |-> messageBody]

\* publishEvent: the arguments of its amqp_basic_publish call
BasicPublish(routingKey, messageBody) ==
    [channel |-> 1, exchange |-> "chat_events", routing_key |-> routingKey,
     mandatory |-> 0, immediate |-> 0, content_type |-> "application/json",
     delivery_mode |-> 2, body |-> messageBody]

\* publishEvent returned before amqp_basic_publish
NoCall ==
    [channel |-> 0, exchange |-> "", routing_key |-> "", mandatory |-> 0,
     immediate |-> 0, content_type |-> "", delivery_mode |-> 0,
     body |-> <<>>]

\* a publishEvent that gives up its connection when the broker call fails
HandleAfterPublish_CloseOnFailure(handle, outcome) ==
    IF outcome = "failed" THEN FALSE ELSE handle

\* publishEvent assigns neither conn_ nor socket_, whatever the call returns
HandleAfterPublish(handle, outcome) == handle

\* a publishEvent that marks the publisher disconnected when the broker call
\* fails
ConnectedAfterPublish_ClearOnFailure(flag, outcome) ==
    flag /\ outcome # "failed"

\* publishEvent reads connected_ and never assigns it
ConnectedAfterPublish(flag, outcome) == flag

\* the threads inside amqp_basic_publish on the shared connection
InPublish == {t \in Threads : tpc[t] = "basic_publish"}

\* what publishEvent did in one call: the broker calls it made, the line it
\* logged, what it gave back to its caller (it is a void function) and the
\* id of the message the broker queued for it (0 = none), with the user and
\* the room the event names (user.registered names no room)
PublishRecord(t, outcome, calls, line, id) ==
    [thread |-> t, rk |-> treq[t], outcome |-> outcome, calls |-> calls,
     log |-> line, returned |-> "void", id |-> id, user |-> targ[t].user,
     room |-> IF treq[t] = "user.registered" THEN 0 ELSE targ[t].room,
     call |-> IF calls = 0 THEN NoCall
              ELSE BasicPublish(treq[t], EventBody(treq[t], targ[t].user))]

\* a publishEvent without the connected_ test
PublishEnter_NoGuard(t) ==
    /\ tpc[t] = "publishEvent"
    /\ tpc' = [tpc EXCEPT ![t] = "basic_publish"]
    /\ raced' = [u \in Threads |->
                    IF InPublish # {} /\ (u = t \/ u \in InPublish)
                    THEN TRUE ELSE raced[u]]
    /\ UNCHANGED publishLog
    /\ UNCHANGED <<pub_connected_, pub_conn_, pub_socket_, pubHandshake,
                   treq, requests, users,
                   members, messages, targ, responses>>
    /\ UNCHANGED <<brokerVars, consumerVars>>

\* publishEvent up to amqp_basic_publish: return when not connected
PublishEnter(t) ==
    /\ tpc[t] = "publishEvent"
    /\ IF ~pub_connected_ \/ ~pub_conn_
       THEN /\ tpc' = [tpc EXCEPT ![t] = "respond"]
            /\ raced' = raced
            /\ publishLog' = Append(publishLog,
                  PublishRecord(t, "not_connected", 0,
                                "RabbitMQ not connected", 0))
       ELSE /\ tpc' = [tpc EXCEPT ![t] = "basic_publish"]
            /\ raced' = [u \in Threads |->
                            IF InPublish # {} /\ (u = t \/ u \in InPublish)
                            THEN TRUE ELSE raced[u]]
            /\ UNCHANGED publishLog
    /\ UNCHANGED <<pub_connected_, pub_conn_, pub_socket_, pubHandshake,
                   treq, requests, users,
                   members, messages, targ, responses>>
    /\ UNCHANGED <<brokerVars, consumerVars>>

\* what one amqp_basic_publish call can come to: a call that overlapped
\* another thread's call on the same connection may also put interleaved
\* frames on the wire
PublishOutcomes(overlapped) ==
    IF overlapped THEN {"ok", "failed", "garbled"} ELSE {"ok", "failed"}

\* the line publishEvent logs after amqp_basic_publish has returned
PublishLine(outcome) ==
    IF outcome = "failed" THEN "Failed to publish message"
    ELSE "Published event"

\* a publishEvent that names an exchange no queue is bound to: the broker
\* accepts the message and drops it
PublishReturn_WrongExchange(t, outcome) ==
    /\ tpc[t] = "basic_publish"
    /\ outcome \in PublishOutcomes(raced[t])
    /\ UNCHANGED <<queue, published>>
    /\ publishLog' = Append(publishLog,
          PublishRecord(t, outcome, 1, PublishLine(outcome), 0))
    /\ tpc' = [tpc EXCEPT ![t] = "respond"]
    /\ UNCHANGED <<exchangeDeclared, queueDeclared, bindings, subscribed>>
    /\ UNCHANGED <<pub_connected_, pub_conn_, pub_socket_, pubHandshake,
                   treq, raced, requests, users,
                   members, messages, targ, responses>>
    /\ UNCHANGED consumerVars

\* publishEvent from the return of amqp_basic_publish on
PublishReturn(t, outcome) ==
    /\ tpc[t] = "basic_publish"
    /\ outcome \in PublishOutcomes(raced[t])
    /\ IF outcome # "failed" /\ Routes(treq[t])
       THEN /\ Enqueue(treq[t], IF outcome = "ok"
                                THEN EventBody(treq[t], targ[t].user)
                                ELSE Body_malformed)
            /\ publishLog' = Append(publishLog,
                  PublishRecord(t, outcome, 1, PublishLine(outcome),
                                published + 1))
       ELSE /\ UNCHANGED <<queue, published>>
            /\ publishLog' = Append(publishLog,
                  PublishRecord(t, outcome, 1, PublishLine(outcome), 0))
    /\ tpc' = [tpc EXCEPT ![t] = "respond"]
    /\ pub_conn_' = HandleAfterPublish(pub_conn_, outcome)
    /\ pub_socket_' = HandleAfterPublish(pub_socket_, outcome)
    /\ pub_connected_' = ConnectedAfterPublish(pub_connected_, outcome)
    /\ UNCHANGED <<exchangeDeclared, queueDeclared, bindings, subscribed>>
    /\ UNCHANGED <<pubHandshake, treq, raced, requests, users,
                   members, messages, targ, responses>>
    /\ UNCHANGED consumerVars

\* what the publishEvent call of thread t's request came to
LastPublishOf(t) ==
    LET idx == {i \in 1..Len(publishLog) : publishLog[i].thread = t}
    IN publishLog[CHOOSE i \in idx : \A j \in idx : j <= i].outcome

\* a handler that answers 500 when its event was not published
Respond_FailOnPublish(t) ==
    /\ tpc[t] = "respond"
    /\ tpc' = [tpc EXCEPT ![t] = "idle"]
    /\ treq' = [treq EXCEPT ![t] = ""]
    /\ targ' = [targ EXCEPT ![t] = NoRequest]
    /\ raced' = [raced EXCEPT ![t] = FALSE]
    /\ responses' = Append(responses,
          IF LastPublishOf(t) = "ok"
          THEN Response(targ[t].kind, SuccessStatus(targ[t].kind),
                        SuccessBody(targ[t].kind), LastPublishOf(t))
          ELSE Response(targ[t].kind, 500, "error", LastPublishOf(t)))
    /\ UNCHANGED <<pub_connected_, pub_conn_, pub_socket_, pubHandshake,
                   requests, publishLog, users,
                   members, messages>>
    /\ UNCHANGED <<brokerVars, consumerVars>>

\* the handler after publishEvent: the success response
Respond(t) ==
    /\ tpc[t] = "respond"
    /\ tpc' = [tpc EXCEPT ![t] = "idle"]
    /\ treq' = [treq EXCEPT ![t] = ""]
    /\ targ' = [targ EXCEPT ![t] = NoRequest]
    /\ raced' = [raced EXCEPT ![t] = FALSE]
    /\ responses' = Append(responses,
          Response(targ[t].kind, SuccessStatus(targ[t].kind),
                   SuccessBody(targ[t].kind), LastPublishOf(t)))
    /\ UNCHANGED <<pub_connected_, pub_conn_, pub_socket_, pubHandshake,
                   requests, publishLog, users,
                   members, messages>>
    /\ UNCHANGED <<brokerVars, consumerVars>>

(***************************************************************************)
(* Specifications                                                          *)
(***************************************************************************)
\* a connected consumer whose receive has just returned one message: the
\* state startConsuming is in when it calls processEvent
InitDispatch ==
    /\ exchangeDeclared = TRUE
    /\ queueDeclared = TRUE
    /\ bindings = RoutingKeys
    /\ subscribed = TRUE
    /\ queue = <<>>
    /\ published = 1
    /\ cpc = "reply"
    /\ smtpClient_ \in {ConfiguredClient(env) : env \in SmtpEnvs}
    /\ testRecipient \in DispatchOverrides
    /\ connected_ = TRUE
    /\ conn_ = TRUE
    /\ handshake = [i \in 1..Len(HandshakeSteps) |->
                       [step |-> HandshakeSteps[i], ok |-> TRUE]]
    /\ result = "normal"
    /\ \E rk \in RoutingKeys, body \in DispatchBodies :
          envelope = [id |-> 1, rk |-> rk, body |-> body]
    /\ deliveries = <<1>>
    /\ dispatchLog = <<>>
    /\ heartbeats = 0
    /\ exitStatus = -1
    /\ pub_connected_ = FALSE
    /\ pub_conn_ = FALSE
    /\ pub_socket_ = FALSE
    /\ tpc = [t \in Threads |-> "start"]
    /\ treq = [t \in Threads |-> ""]
    /\ raced = [t \in Threads |-> FALSE]
    /\ requests = 0
    /\ publishLog = <<>>
    /\ pubHandshake = <<>>
    /\ users = InitUsers
    /\ members = {}
    /\ messages = 0
    /\ targ = [t \in Threads |-> NoRequest]
    /\ responses = <<>>

\* the notification service, the broker and the broker's other clients
NextConsumer ==
    \/ \E env \in SmtpEnvs : MainConfigureSmtp(env)
    \/ \E ok \in BOOLEAN : HandshakeStep(ok)
    \/ MainCheckConnected
    \/ \E reply \in ConsumeReplies : ConsumeMessage(reply)
    \/ \E outcome \in SmtpOutcomes : DispatchEvent(outcome)
    \/ HandleTimeout
    \/ HandleBrokerError
    \/ MainReturn
    \/ \E m \in ForeignMsgs : ForeignPublish(m)
    \/ \E body \in DirectBodies : DirectPublish(body)

\* the API server and the broker
NextApi ==
    \/ \E failed \in PublisherFailures : PublisherConnect(failed)
    \/ \E t \in Threads, req \in Requests : HandleRequest(t, req)
    \/ \E t \in Threads, out \in {"ok", "db_error", "crash"} : DbWrite(t, out)
    \/ \E t \in Threads : PublishEnter(t)
    \/ \E t \in Threads, outcome \in {"ok", "failed", "garbled"} :
          PublishReturn(t, outcome)
    \/ \E t \in Threads : Respond(t)

Next == NextConsumer \/ NextApi

Spec == Init /\ [][NextConsumer]_vars

\* the requests that pass validation, for the room that exists
ValidRequests == {r \in Requests : r.form = "ok" /\ r.room \in rooms}

\* the environment without SMTP settings
NoSmtpEnv == CHOOSE env \in SmtpEnvs : ~env.host.set

\* the API server, the broker and the notification service, with the API
\* server as the only publisher: valid requests handled one after the other,
\* events consumed in simulated mode, one receive timeout
NextSystem ==
    \/ MainConfigureSmtp(NoSmtpEnv)
    \/ \E ok \in BOOLEAN : HandshakeStep(ok)
    \/ MainCheckConnected
    \/ \E reply \in {"normal", "library_error"} : ConsumeMessage(reply)
    \/ (heartbeats = 0 /\ ConsumeMessage("timeout"))
    \/ \E outcome \in SmtpOutcomes : DispatchEvent(outcome)
    \/ HandleTimeout
    \/ HandleBrokerError
    \/ MainReturn
    \/ \E failed \in {"none", "login"} : PublisherConnect(failed)
    \/ \E req \in ValidRequests : HandleRequest(1, req)
    \/ \E t \in Threads : DbWrite(t, "ok")
    \/ \E t \in Threads : PublishEnter(t)
    \/ \E t \in Threads, outcome \in {"ok", "failed"} :
          PublishReturn(t, outcome)
    \/ \E t \in Threads : Respond(t)

\* the consumer process runs on, and the broker hands a queued message to a
\* consumer that keeps asking for one
SystemFairness ==
    /\ WF_vars(MainConfigureSmtp(NoSmtpEnv))
    /\ WF_vars(\E ok \in BOOLEAN : HandshakeStep(ok))
    /\ WF_vars(MainCheckConnected)
    /\ SF_vars(ConsumeMessage("normal"))
    /\ WF_vars(\E outcome \in SmtpOutcomes : DispatchEvent(outcome))
    /\ WF_vars(HandleTimeout)
    /\ WF_vars(HandleBrokerError)

\* both processes at their start, TEST_EMAIL_RECIPIENT unset
InitSystem == Init /\ testRecipient = EnvUnset

SpecSystem == InitSystem /\ [][NextSystem]_vars /\ SystemFairness

\* one call of processEvent on every payload and configuration
NextDispatch == \E outcome \in SmtpOutcomes : DispatchEvent(outcome)

SpecDispatch == InitDispatch /\ [][NextDispatch]_vars

\* the API server at its start; it does not read TEST_EMAIL_RECIPIENT
InitApi == Init /\ testRecipient = EnvUnset

SpecApi == InitApi /\ [][NextApi]_vars

\* an environment with the four SMTP settings in order
MailEnv == CHOOSE env \in SmtpEnvs : ~ConfiguredClient(env).null

\* both processes with a configured mail transport: the consumer's
\* handshake succeeds, the publisher connects, requests are handled one
\* at a time
NextMail ==
    \/ MainConfigureSmtp(MailEnv)
    \/ HandshakeStep(TRUE)
    \/ MainCheckConnected
    \/ \E reply \in {"normal", "library_error"} : ConsumeMessage(reply)
    \/ \E outcome \in {"ok", "curl_error"} : DispatchEvent(outcome)
    \/ HandleBrokerError
    \/ MainReturn
    \/ PublisherConnect("none")
    \/ \E req \in ValidRequests : HandleRequest(1, req)
    \/ \E t \in Threads : DbWrite(t, "ok")
    \/ \E t \in Threads : PublishEnter(t)
    \/ \E t \in Threads, outcome \in {"ok", "failed"} :
          PublishReturn(t, outcome)
    \/ \E t \in Threads : Respond(t)

MailFairness ==
    /\ WF_vars(MainConfigureSmtp(MailEnv))
    /\ WF_vars(HandshakeStep(TRUE))
    /\ WF_vars(MainCheckConnected)
    /\ SF_vars(ConsumeMessage("normal"))
    /\ WF_vars(\E outcome \in {"ok", "curl_error"} : DispatchEvent(outcome))
    /\ WF_vars(HandleBrokerError)

SpecMail == InitSystem /\ [][NextMail]_vars /\ MailFairness

\* a consumer that has connected and waits in its loop in simulated mode,
\* beside an API server at its start
InitRace ==
    /\ exchangeDeclared = TRUE
    /\ queueDeclared = TRUE
    /\ bindings = RoutingKeys
    /\ subscribed = TRUE
    /\ queue = <<>>
    /\ published = 0
    /\ cpc = "receive"
    /\ smtpClient_ = NullClient
    /\ testRecipient = EnvUnset
    /\ connected_ = TRUE
    /\ conn_ = TRUE
    /\ handshake = [i \in 1..Len(HandshakeSteps) |->
                       [step |-> HandshakeSteps[i], ok |-> TRUE]]
    /\ result = "none"
    /\ envelope = NoMsg
    /\ deliveries = <<>>
    /\ dispatchLog = <<>>
    /\ heartbeats = 0
    /\ exitStatus = -1
    /\ pub_connected_ = FALSE
    /\ pub_conn_ = FALSE
    /\ pub_socket_ = FALSE
    /\ tpc = [t \in Threads |-> "start"]
    /\ treq = [t \in Threads |-> ""]
    /\ raced = [t \in Threads |-> FALSE]
    /\ requests = 0
    /\ publishLog = <<>>
    /\ pubHandshake = <<>>
    /\ users = InitUsers
    /\ members = {}
    /\ messages = 0
    /\ targ = [t \in Threads |-> NoRequest]
    /\ responses = <<>>

\* the request threads of the API server side by side on the one publisher
\* connection, and the consumer taking what they publish
NextRace ==
    \/ PublisherConnect("none")
    \/ \E t \in Threads, req \in ValidRequests : HandleRequest(t, req)
    \/ \E t \in Threads : DbWrite(t, "ok")
    \/ \E t \in Threads : PublishEnter(t)
    \/ \E t \in Threads, outcome \in {"ok", "failed", "garbled"} :
          PublishReturn(t, outcome)
    \/ \E t \in Threads : Respond(t)
    \/ ConsumeMessage("normal")
    \/ DispatchEvent("ok")

SpecRace == InitRace /\ [][NextRace]_vars

(***************************************************************************)
(* Properties                                                              *)
(***************************************************************************)
\* number of times a line occurs in a log
Count(logs, line) == Cardinality({k \in 1..Len(logs) : logs[k] = line})

QueuedIds == {queue[k].id : k \in 1..Len(queue)}

InLoop(pc) == pc \in {"receive", "reply"}
BrokerError(r) == r \in {"library_error", "unexpected"}

\* C1: auto-acknowledge. No message is delivered twice to the consumer, and
\* a message that was delivered (and so handed to processEvent, whatever
\* processEvent did with it) is no longer in notification_queue for a later
\* receive to return.
C1_NoRedelivery ==
    /\ \A i, j \in 1..Len(deliveries) :
          i # j => deliveries[i] # deliveries[j]
    /\ \A i \in 1..Len(deliveries) : deliveries[i] \notin QueuedIds
    /\ \A i \in 1..Len(dispatchLog) : dispatchLog[i].msg.id \notin QueuedIds

\* a first event whose handler failed internally, and a later receive that
\* returned the next message
C1_Witness ==
    /\ Len(deliveries) = 2
    /\ Len(dispatchLog) >= 1
    /\ \/ Count(dispatchLog[1].logs, "JSON parse error") = 1
       \/ \E k \in 1..Len(dispatchLog[1].mail) : ~dispatchLog[1].mail[k].sent

\* C2: no error of a single event escapes the consume loop. Every dispatch
\* step returns normally to the next receive (no exception leaves
\* processEvent), and the loop is left only on a non-timeout broker error.
C2_NoErrorEscapes ==
    [][ /\ (cpc = "reply" /\ result = "normal" /\ cpc' # cpc)
            => /\ cpc' = "receive"
               /\ Len(dispatchLog') = Len(dispatchLog) + 1
               /\ dispatchLog'[Len(dispatchLog')].exc = "none"
        /\ (InLoop(cpc) /\ ~InLoop(cpc'))
            => /\ BrokerError(result)
               /\ cpc' = "returned" ]_vars

\* a wrong-typed field, an unparseable body, an invalid recipient and a
\* failed submission have all been processed and the loop receives again
C2_Witness ==
    /\ cpc = "receive"
    /\ Len(dispatchLog) = 2
    /\ \E i \in 1..2 :
          \/ Count(dispatchLog[i].logs, "Error sending welcome email") = 1
          \/ Count(dispatchLog[i].logs, "JSON parse error") = 1
    /\ \E i \in 1..2 :
          \/ Count(dispatchLog[i].logs, "No valid email found in payload") = 1
          \/ \E k \in 1..Len(dispatchLog[i].mail) : ~dispatchLog[i].mail[k].sent

\* C3: calls to publishEvent on the shared publisher are serialized: at most
\* one request thread is inside amqp_basic_publish at any time.
C3_PublishSerialized == Cardinality(InPublish) <= 1

\* C4: the consumer's connect is all-or-nothing. A failed handshake call is
\* the last call of the handshake, and isConnected() is false after it.
C4_AllOrNothing ==
    \A i \in 1..Len(handshake) :
        ~handshake[i].ok => (i = Len(handshake) /\ ~isConnected)

\* C5: fail-fast startup. A consumer that is not connected never enters the
\* consume loop (startConsuming is not even called), receives and processes
\* nothing, and its process exits with status 1.
C5_FailFast ==
    /\ cpc \in {"receive", "reply", "returned", "aborted"} => connected_
    /\ ~connected_ => (deliveries = <<>> /\ dispatchLog = <<>>)
    /\ (cpc = "exited" /\ ~connected_) => exitStatus = 1

\* the handshake failed at the consume request and the process has exited
\* with status 1 while a message waits in the queue
C5_Witness ==
    /\ cpc = "exited"
    /\ exitStatus = 1
    /\ ~connected_
    /\ queue # <<>>
    /\ deliveries = <<>>

\* C6: on a non-timeout broker error the loop terminates and nothing is
\* received or dispatched afterwards: the error branch goes to the return of
\* startConsuming, and from there on no receive, no dispatch and no new
\* handshake call happens.
C6_TerminatesOnBrokerError ==
    [][ /\ (cpc = "reply" /\ BrokerError(result) /\ cpc' # cpc)
            => cpc' = "returned"
        /\ (cpc \in {"returned", "exited"})
            => /\ cpc' \in {"returned", "exited"}
               /\ deliveries' = deliveries
               /\ dispatchLog' = dispatchLog
               /\ handshake' = handshake
               /\ Len(queue') >= Len(queue) ]_vars

\* the loop has ended on a broker error, the process is gone, and a message
\* is left in the queue
C6_Witness ==
    /\ cpc = "exited"
    /\ BrokerError(result)
    /\ Len(deliveries) = 1
    /\ queue # <<>>

\* C7: exit status of the consumer process. Status 1 is the status of a
\* connection failure at startup, and status 0 is never reached.
C7_StatusZeroNeverReached ==
    /\ exitStatus = 1 => ~connected_
    /\ exitStatus # 0

\* C8: a receive timeout is normal operation. The timeout reply itself takes
\* nothing from the queue, and its branch logs one heartbeat and goes back
\* to receive without dispatching, without a mail or simulated send, and
\* without touching the connection state or ending the process.
C8_TimeoutContinues ==
    [][ /\ (cpc = "receive" /\ cpc' = "reply" /\ result' = "timeout")
            => UNCHANGED <<queue, deliveries, envelope, dispatchLog,
                           connected_, conn_, subscribed, exitStatus>>
        /\ (cpc = "reply" /\ result = "timeout" /\ cpc' # cpc)
            => /\ cpc' = "receive"
               /\ heartbeats' = heartbeats + 1
               /\ UNCHANGED <<deliveries, envelope, dispatchLog, connected_,
                              conn_, subscribed, exitStatus>> ]_vars

\* two timeouts in a row have been answered by heartbeats while a message
\* sits in no one's hands, and the loop receives again
C8_Witness ==
    /\ cpc = "receive"
    /\ heartbeats >= 2
    /\ deliveries = <<>>
    /\ connected_

\* C9: an unparseable body with routing key message.created leads to no
\* e-mail send, real or simulated, and to exactly one logged parse error,
\* in either transport mode.
C9_MalformedMessageCreated ==
    \A i \in 1..Len(dispatchLog) :
        (/\ dispatchLog[i].msg.rk = "message.created"
         /\ ~JsonParse(dispatchLog[i].msg.body).ok)
        => /\ dispatchLog[i].mail = <<>>
           /\ dispatchLog[i].sim = 0
           /\ Count(dispatchLog[i].logs, "JSON parse error") = 1
           /\ dispatchLog[i].exc = "none"

\* C10: an event whose routing key is none of the three leads to no e-mail
\* send, real or simulated, and to one "unknown event type" line, in either
\* transport mode.
C10_UnknownRoutingKey ==
    \A i \in 1..Len(dispatchLog) :
        dispatchLog[i].msg.rk \notin RoutingKeys
        => /\ dispatchLog[i].mail = <<>>
           /\ dispatchLog[i].sim = 0
           /\ Count(dispatchLog[i].logs, "Unknown event type") = 1
           /\ dispatchLog[i].exc = "none"

\* the lines with which the handlers report a skipped event
SkipLines ==
    {"No email provided", "Invalid recipient email, skipping",
     "No valid email found in payload"}

\* the text of the recipient field of a parsed object payload; <<>> when the
\* field is missing
PayloadRecipient(rk, body) ==
    LET \* the payload field a handler reads the recipient from
        RecipientField(key) ==
            IF key = "user.registered" THEN "email"
            ELSE IF key = "message.created" THEN "sender_email"
            ELSE "user_email"
    IN
        LET j == JsonParse(body)
        IN IF RecipientField(rk) \in j.names
           THEN LastMember(j.text, RecipientField(rk)).s
           ELSE <<>>

\* the payload parses to an object whose recipient field is missing or a
\* string
RecipientIsText(rk, body) ==
    LET \* the payload field a handler reads the recipient from
        RecipientField(key) ==
            IF key = "user.registered" THEN "email"
            ELSE IF key = "message.created" THEN "sender_email"
            ELSE "user_email"
    IN
        LET j == JsonParse(body)
        IN /\ j.ok
           /\ j.type = "object"
           /\ RecipientField(rk) \in j.names
                 => LastMember(j.text, RecipientField(rk)).k = "str"

OverrideSet == testRecipient.set /\ testRecipient.val # <<>>

\* C11: for each of the three event types, a payload whose recipient e-mail
\* is missing, is the empty string or contains no "@" (for message.created:
\* the sender_email, unless the override replaces it) results in zero
\* sendEmail calls and exactly one logged skip.
C11_InvalidRecipientSkipped ==
    \A i \in 1..Len(dispatchLog) :
        LET e == dispatchLog[i]
            to == PayloadRecipient(e.msg.rk, e.msg.body)
        IN (/\ e.msg.rk \in RoutingKeys
            /\ RecipientIsText(e.msg.rk, e.msg.body)
            /\ ~(e.msg.rk = "message.created" /\ OverrideSet)
            /\ (to = <<>> \/ ~ContainsAt(to)))
           => /\ e.mail = <<>>
              /\ Cardinality({k \in 1..Len(e.logs) : e.logs[k] \in SkipLines}) = 1

\* C12: at most one send attempt per delivered event and no requeue. Every
\* dispatch makes at most one sendEmail call; when that call returns false
\* the handler only logs one line, the message is not put back into the
\* queue, nothing is published, and the loop goes on to the next receive.
C12_AtMostOneSend ==
    [][ (cpc = "reply" /\ result = "normal" /\ cpc' # cpc)
        => LET e == dispatchLog'[Len(dispatchLog')]
           IN /\ Len(dispatchLog') = Len(dispatchLog) + 1
              /\ e.msg = envelope
              /\ Len(e.mail) <= 1
              /\ (e.mail # <<>> /\ ~e.mail[1].sent)
                    => /\ Len(e.logs) = 1
                       /\ queue' = queue
                       /\ published' = published
                       /\ e.msg.id \notin {queue'[k].id : k \in 1..Len(queue')}
                       /\ cpc' = "receive" ]_vars

\* a failed submission was dispatched once, the next receive returned
\* another message, and the failed one is in no queue
C12_Witness ==
    /\ Len(dispatchLog) = 2
    /\ Len(dispatchLog[1].mail) = 1
    /\ ~dispatchLog[1].mail[1].sent
    /\ dispatchLog[2].msg.id # dispatchLog[1].msg.id
    /\ dispatchLog[1].msg.id \notin QueuedIds
    /\ published = 2

\* the transport is a configured SMTP client, so the handlers run
ConfiguredMode == ~smtpClient_.null /\ isConfigured(smtpClient_)

\* C13: recipient resolution for message.created. Without an override
\* (TEST_EMAIL_RECIPIENT unset or empty) the recipient handed to sendEmail is
\* the payload's sender_email, and a mail is sent exactly when that address
\* contains an "@"; with a non-empty override the recipient is the override
\* whatever sender_email is, also when sender_email is missing or invalid.
C13_RecipientResolution ==
    \A i \in 1..Len(dispatchLog) :
        LET e == dispatchLog[i]
            sender == PayloadRecipient("message.created", e.msg.body)
        IN (e.msg.rk = "message.created" /\ ConfiguredMode)
           => /\ e.mail # <<>>
                    => e.mail[1].to = IF OverrideSet THEN testRecipient.val
                                      ELSE sender
              /\ (RecipientIsText("message.created", e.msg.body) /\ OverrideSet
                    /\ ContainsAt(testRecipient.val))
                    => Len(e.mail) = 1
              /\ (RecipientIsText("message.created", e.msg.body) /\ ~OverrideSet)
                    => (Len(e.mail) = 1 <=> ContainsAt(sender))

\* a message.created event without a usable sender_email went to the
\* override address
C13_Witness ==
    /\ OverrideSet
    /\ ConfiguredMode
    /\ Len(dispatchLog) = 1
    /\ dispatchLog[1].msg.rk = "message.created"
    /\ ~ContainsAt(PayloadRecipient("message.created", dispatchLog[1].msg.body))
    /\ Len(dispatchLog[1].mail) = 1
    /\ dispatchLog[1].mail[1].to = testRecipient.val

\* C14: the override affects only message.created. For user.registered and
\* user.joined_room the recipient handed to sendEmail is the payload's email
\* and user_email, and the whole outcome of the dispatch is the one it has
\* without an override, whether or not TEST_EMAIL_RECIPIENT is set.
C14_OverrideOnlyMessageCreated ==
    \A i \in 1..Len(dispatchLog) :
        LET e == dispatchLog[i]
        IN (e.msg.rk \in {"user.registered", "user.joined_room"}
              /\ ConfiguredMode)
           => /\ e.mail # <<>>
                    => e.mail[1].to = PayloadRecipient(e.msg.rk, e.msg.body)
              /\ \E outcome \in SmtpOutcomes :
                    LET r == processEvent(e.msg.rk, e.msg.body, smtpClient_,
                                          EnvUnset, outcome)
                    IN /\ e.mail = r.mail
                       /\ e.logs = r.logs
                       /\ e.exc = r.exc

\* with the override set, a room-join notification went to the payload's
\* user_email
C14_Witness ==
    /\ OverrideSet
    /\ ConfiguredMode
    /\ Len(dispatchLog) = 1
    /\ dispatchLog[1].msg.rk = "user.joined_room"
    /\ Len(dispatchLog[1].mail) = 1
    /\ dispatchLog[1].mail[1].to = Str_ab
    /\ dispatchLog[1].mail[1].to # testRecipient.val

\* C15: the publisher's connect is best-effort. When a call of its handshake
\* (socket, login, channel, exchange declare) fails, the failed call is the
\* last one made, the publisher is left disconnected, and the API server
\* process is not ended: every request thread is up and serving.
C15_ConnectBestEffort ==
    pubHandshake # <<>>
    => /\ \A i \in 1..Len(pubHandshake) :
             ~pubHandshake[i].ok
             => (i = Len(pubHandshake) /\ ~pub_connected_)
       /\ pub_connected_
             <=> (/\ Len(pubHandshake) = Len(PublisherSteps)
                  /\ \A i \in 1..Len(pubHandshake) : pubHandshake[i].ok)
       /\ \A t \in Threads : tpc[t] \notin {"start", "exited"}

\* the login failed, and a registration was still answered with 201
C15_Witness ==
    /\ Len(pubHandshake) = 3
    /\ ~pubHandshake[3].ok
    /\ ~pub_connected_
    /\ \E i \in 1..Len(responses) :
          /\ responses[i].kind = "user.registered"
          /\ responses[i].status = 201

\* the lines publishEvent writes to std::cerr
PublishWarnings == {"RabbitMQ not connected", "Failed to publish message"}

\* C16 as stated: a publish on a disconnected publisher, or one whose broker
\* call fails, returns a failure result to its caller and logs a warning; a
\* disconnected publisher makes no broker call; every publish makes at most
\* one broker publish call.
C16_PublishFailureReturned ==
    \A i \in 1..Len(publishLog) :
        LET e == publishLog[i]
        IN /\ e.calls <= 1
           /\ e.outcome = "not_connected" => e.calls = 0
           /\ e.outcome \in {"not_connected", "failed"}
                 => (e.returned = "failure" /\ e.log \in PublishWarnings)

\* C16, amended: a publish on a disconnected publisher, or one whose broker
\* call fails, logs a warning and returns nothing to its caller (publishEvent
\* is void, so the caller sees the same as after a success); a disconnected
\* publisher makes no broker call; every publish makes at most one broker
\* publish call, and every request at most one publish.
C16_PublishFailureLogged ==
    /\ \A i \in 1..Len(publishLog) :
          LET e == publishLog[i]
          IN /\ e.calls <= 1
             /\ e.calls = 1 => pub_connected_
             /\ ~pub_connected_
                   => (/\ e.outcome = "not_connected"
                       /\ e.calls = 0
                       /\ e.log = "RabbitMQ not connected")
             /\ e.outcome = "failed"
                   => (e.calls = 1 /\ e.log = "Failed to publish message")
             /\ e.log \in PublishWarnings
                   <=> e.outcome \in {"not_connected", "failed"}
             /\ e.returned = "void"
    /\ Len(publishLog)
          + Cardinality({t \in Threads :
                            tpc[t] \in {"publishEvent", "basic_publish"}})
          <= requests

\* a broker call has failed, publishEvent has logged its warning and the
\* handler has answered as for a success
C16_Witness ==
    /\ \E i \in 1..Len(publishLog) :
          /\ publishLog[i].outcome = "failed"
          /\ publishLog[i].log = "Failed to publish message"
          /\ publishLog[i].calls = 1
    /\ \E i \in 1..Len(responses) :
          /\ responses[i].pub = "failed"
          /\ responses[i].status = SuccessStatus(responses[i].kind)

\* C17: the HTTP layer is unaffected by notification failures. For register,
\* send-message and add-member, no step of publishEvent touches the tables
\* or the responses, whatever the publisher's state and the broker call's
\* result; and the response that follows it is the success response of the
\* request, with the status and body it has when the publish succeeds.
C17_HttpUnaffected ==
    [][ \A t \in Threads :
          /\ (/\ tpc[t] \in {"publishEvent", "basic_publish"}
              /\ tpc'[t] # tpc[t]
              /\ tpc'[t] # "crashed")
                => /\ UNCHANGED <<users, members, messages, responses>>
                   /\ tpc'[t] \in {"basic_publish", "respond"}
          /\ (tpc[t] = "respond" /\ tpc'[t] \notin {"respond", "crashed"})
                => /\ Len(responses') = Len(responses) + 1
                   /\ responses'[Len(responses')].kind = targ[t].kind
                   /\ responses'[Len(responses')].status
                         = SuccessStatus(targ[t].kind)
                   /\ responses'[Len(responses')].body
                         = SuccessBody(targ[t].kind)
                   /\ UNCHANGED <<users, members, messages>>
                   /\ tpc'[t] = "idle" ]_vars

\* with a disconnected publisher a member was added, the row is stored and
\* the request was answered with 200
C17_Witness ==
    /\ ~pub_connected_
    /\ <<1, "testuser">> \in members
    /\ \E i \in 1..Len(responses) :
          /\ responses[i].kind = "user.joined_room"
          /\ responses[i].pub = "not_connected"
          /\ responses[i].status = 200
          /\ responses[i].body = "User added to room successfully"

\* C18: exactly one publishEvent call per domain action. Whenever no request
\* is in progress, the number of publishEvent calls with each routing key
\* equals the number of registrations, messages and room memberships the
\* handlers have stored.
C18_OnePublishPerAction ==
    LET \* publishEvent calls made with a routing key
        PublishCalls(rk) ==
            Cardinality({i \in 1..Len(publishLog) : publishLog[i].rk = rk})
    IN
        LET \* rows the handlers have inserted for the domain action behind a routing key
            StoredRows(rk) ==
                IF rk = "user.registered" THEN Cardinality(users \ InitUsers)
                ELSE IF rk = "message.created" THEN messages
                ELSE Cardinality(members)
        IN
            (\A t \in Threads : tpc[t] = "idle")
            => \A rk \in RoutingKeys : PublishCalls(rk) = StoredRows(rk)

\* C19: an event is published only after a successful domain-state change.
\* publishEvent is entered only from a database write that reported success
\* and whose row is stored; a request that ends in a validation error,
\* not-found, conflict, forbidden or database failure is answered from a
\* point before publishEvent and leaves the publish log as it is; and no
\* request both ends in an error and publishes.
C19_PublishAfterWrite ==
    [][
        LET \* the row a request writes is in the tables after the step
            RowStoredNext(req) ==
                IF req.kind = "user.registered" THEN req.user \in users'
                ELSE IF req.kind = "message.created" THEN messages' >= 1
                ELSE <<req.room, req.user>> \in members'
        IN
        /\ \A t \in Threads :
              (tpc'[t] = "publishEvent" /\ tpc[t] # "publishEvent")
              => (/\ tpc[t] = "write"
                  /\ RowStoredNext(targ[t])
                  /\ publishLog' = publishLog)
        /\ publishLog' # publishLog
              => \E t \in Threads :
                    /\ tpc[t] \in {"publishEvent", "basic_publish"}
                    /\ tpc'[t] = "respond"
                    /\ RowStoredNext(targ[t])
                    /\ Len(publishLog') = Len(publishLog) + 1
                    /\ publishLog'[Len(publishLog')].thread = t
        /\ (/\ Len(responses') > Len(responses)
            /\ responses'[Len(responses')].status >= 400)
              => (/\ publishLog' = publishLog
                  /\ UNCHANGED <<queue, published>>
                  /\ responses'[Len(responses')].pub = "none"
                  /\ \E t \in Threads :
                        /\ tpc[t] \in {"idle", "write"}
                        /\ tpc'[t] = "idle")
        /\ Cardinality({i \in 1..Len(responses') :
                          responses'[i].status >= 400}) + Len(publishLog')
              + Cardinality({t \in Threads :
                    tpc'[t] \in {"write", "publishEvent", "basic_publish"}})
              <= requests' ]_vars

\* a failed write was answered with 500 and published nothing, and a stored
\* registration was published once
C19_Witness ==
    /\ Len(responses) = 2
    /\ \E i \in 1..2 : responses[i].status = 500 /\ responses[i].pub = "none"
    /\ \E i \in 1..2 :
          /\ responses[i].status = 201
          /\ responses[i].kind = "user.registered"
    /\ "bob" \in users
    /\ Len(publishLog) = 1
    /\ publishLog[1].rk = "user.registered"

DeliveredIds == {deliveries[k] : k \in 1..Len(deliveries)}

\* C20 as stated: every event a connected publisher has successfully
\* published with one of the three keys is in notification_queue or has been
\* received by the consumer, also when it was published before the consumer
\* process started for the first time.
C20_DeliveryGuarantee ==
    \A i \in 1..Len(publishLog) :
        (publishLog[i].outcome = "ok" /\ publishLog[i].rk \in RoutingKeys)
        => /\ publishLog[i].id # 0
           /\ publishLog[i].id \in QueuedIds \cup DeliveredIds

\* C20, amended: every event a connected publisher successfully publishes
\* with one of the three keys while notification_queue is declared and bound
\* for that key is held in the queue until a consumer receives it, and is
\* eventually received by a consumer that keeps running its loop; an event
\* published while the queue is not declared or not bound for its key (as
\* before the consumer's first start) is dropped.
C20_HeldUntilReceived ==
    /\ [][
          LET \* a successful publish puts its event at the end of the queue exactly when
              \* the queue is declared and bound for the key at that moment
              PublishQueues ==
                  (/\ Len(publishLog') = Len(publishLog) + 1
                   /\ publishLog'[Len(publishLog')].outcome = "ok")
                  => LET e == publishLog'[Len(publishLog')]
                     IN IF exchangeDeclared /\ queueDeclared /\ e.rk \in bindings
                        THEN /\ e.id # 0
                             /\ queue' = Append(queue, [id |-> e.id, rk |-> e.rk,
                                                        body |-> EventBody(e.rk, e.user)])
                        ELSE /\ e.id = 0
                             /\ queue' = queue
          IN PublishQueues
          /\
          LET \* a message leaves the queue only by being handed to the consumer
              LeavesByDelivery ==
                  \A id \in QueuedIds :
                      id \notin {queue'[k].id : k \in 1..Len(queue')}
                      => /\ deliveries' = Append(deliveries, id)
                         /\ envelope'.id = id
                         /\ cpc = "receive"
          IN LeavesByDelivery ]_vars
    /\ \A id \in 1..MaxMsgs :
          (id \in QueuedIds /\ InLoop(cpc))
             ~> (id \in DeliveredIds \/ ~InLoop(cpc))

\* one event was published before the queue existed and is nowhere, a later
\* one was queued and has been received
C20_Witness ==
    /\ Len(publishLog) = 2
    /\ publishLog[1].outcome = "ok"
    /\ publishLog[1].id = 0
    /\ publishLog[2].outcome = "ok"
    /\ publishLog[2].id \in DeliveredIds
    /\ queue = <<>>

(***************************************************************************)
(* C21 - C30                                                               *)
(***************************************************************************)
\* C21: one consumer never dispatches two events at once: at most one
\* delivered message is waiting for processEvent, it is the one in the
\* envelope, and the loop asks the broker for the next message only when
\* processEvent has returned for every message delivered before (its mail
\* send or its simulated delay is part of that call).
C21_SequentialDispatch ==
    LET \* the deliveries that have not been handed to processEvent yet
        Undispatched == Len(deliveries) - Len(dispatchLog)
    IN
        /\ Undispatched \in {0, 1}
        /\ Undispatched = 1 =>
              /\ cpc = "reply"
              /\ result = "normal"
              /\ envelope # NoMsg
              /\ envelope.id = deliveries[Len(deliveries)]
        /\ cpc = "receive" => (Undispatched = 0 /\ envelope = NoMsg)

\* a second message is received after the first one was dispatched with a
\* mail send or a simulated delay
C21_Witness ==
    /\ Len(deliveries) = 2
    /\ Len(dispatchLog) = 1
    /\ dispatchLog[1].sim + Len(dispatchLog[1].mail) = 1
    /\ cpc = "reply"
    /\ result = "normal"

\* C22: within one consumer connection the events are dispatched in the
\* order of delivery: the i-th processEvent call gets the i-th delivered
\* message with its routing key and body, nothing is reordered, and no
\* delivery is skipped before the next receive or the end of the loop.
C22_DispatchOrder ==
    /\ Len(dispatchLog) <= Len(deliveries)
    /\ \A i \in 1..Len(dispatchLog) : dispatchLog[i].msg.id = deliveries[i]
    /\ \A i \in 1..Len(dispatchLog) :
          \A k \in 1..Len(queue) : queue[k].id # dispatchLog[i].msg.id
    /\ cpc \in {"receive", "returned", "exited"} =>
          Len(dispatchLog) = Len(deliveries)

\* two deliveries, one of them with a routing key that has no handler, were
\* both dispatched in their order
C22_Witness ==
    /\ Len(dispatchLog) = 2
    /\ dispatchLog[1].msg.id = deliveries[1]
    /\ dispatchLog[2].msg.id = deliveries[2]
    /\ \E i \in 1..2 : dispatchLog[i].msg.rk \notin RoutingKeys
    /\ cpc = "receive"

\* C23: transport mode selection. main selects the configured mode exactly
\* when all four SMTP settings are present and well-formed; otherwise it
\* selects the simulated mode and goes on to build the consumer without
\* failing the process; after startup the mode never changes.
C23_ModeSelection ==
    [][
        LET \* the four SMTP settings are present, host, user and password are not
            \* empty and the port reads as a positive number
            WellFormedSmtp(env) ==
                /\ env.host.set /\ env.port.set /\ env.user.set /\ env.pass.set
                /\ env.host.val # <<>>
                /\ env.user.val # <<>>
                /\ env.pass.val # <<>>
                /\ Atoi(env.port.val) > 0
        IN
        /\ \A env \in SmtpEnvs :
              MainConfigureSmtp(env) =>
                  /\ ConfiguredMode' <=> WellFormedSmtp(env)
                  /\ ConfiguredMode' =>
                        /\ smtpClient_'.smtpServer_ = env.host.val
                        /\ smtpClient_'.username_ = env.user.val
                        /\ smtpClient_'.password_ = env.pass.val
                  /\ exitStatus' = -1
                  /\ cpc' = HandshakeSteps[1]
        /\ cpc # "main" => smtpClient_' = smtpClient_ ]_vars

\* the simulated mode chosen at startup is still in force when the consumer
\* has dispatched an event and asks for the next one
C23_Witness ==
    /\ ~ConfiguredMode
    /\ cpc = "receive"
    /\ Len(dispatchLog) = 1
    /\ dispatchLog[1].sim = 1
    /\ exitStatus = -1

\* C24: with a transport built without credentials isConfigured() is false,
\* every mail of a deliverable event goes through sendEmail, which waits the
\* simulated delay and returns true, and no SMTP submission is attempted.
C24_SimulatedSendEmail ==
    ~ConfiguredMode =>
        \A i \in 1..Len(dispatchLog) :
            LET e == dispatchLog[i]
                to == PayloadRecipient(e.msg.rk, e.msg.body)
            IN (/\ e.msg.rk \in RoutingKeys
                /\ RecipientIsText(e.msg.rk, e.msg.body)
                /\ ContainsAt(to)
                /\ to # UnknownEmail)
               => /\ Len(e.mail) = 1
                  /\ e.mail[1].sent
                  /\ e.sim = 1

\* C25: every message the publisher sends goes to exchange chat_events with
\* delivery mode 2 (persistent) and content type application/json; of the
\* caller's arguments only the routing key and the payload reach the broker
\* call, so two calls differ in nothing but these two.
C25_PersistentJson ==
    LET \* the publishEvent calls that reached amqp_basic_publish
        BrokerCalls == {i \in 1..Len(publishLog) : publishLog[i].calls = 1}
    IN
        /\ \A i \in BrokerCalls :
              LET c == publishLog[i].call
              IN /\ c.exchange = "chat_events"
                 /\ c.delivery_mode = 2
                 /\ c.content_type = "application/json"
                 /\ c.routing_key = publishLog[i].rk
                 /\ c.body = EventBody(publishLog[i].rk, publishLog[i].user)
        /\ \A i, j \in BrokerCalls :
              [publishLog[i].call EXCEPT !.routing_key = "", !.body = <<>>]
                  = [publishLog[j].call EXCEPT !.routing_key = "", !.body = <<>>]

\* two events of different types went to the broker, one call succeeded and
\* the other failed
C25_Witness ==
    LET \* the publishEvent calls that reached amqp_basic_publish
        BrokerCalls == {i \in 1..Len(publishLog) : publishLog[i].calls = 1}
    IN
        /\ Len(publishLog) = 2
        /\ BrokerCalls = {1, 2}
        /\ publishLog[1].rk # publishLog[2].rk
        /\ publishLog[1].outcome = "failed"
        /\ publishLog[2].outcome = "ok"

\* C26: publish leaves the publisher as it was. No step of a publishEvent
\* call, successful or failed, changes the connection handle, the socket or
\* the connected flag; and nothing is kept for later sending: a message
\* enters the queue only in the step in which a broker call succeeds, with
\* that call's routing key, so a failed or skipped publish is never sent
\* afterwards.
C26_PublishFrame ==
    [][ /\ (\E t \in Threads :
               /\ tpc[t] \in {"publishEvent", "basic_publish"}
               /\ tpc'[t] # tpc[t]) =>
              /\ pub_conn_' = pub_conn_
              /\ pub_socket_' = pub_socket_
              /\ pub_connected_' = pub_connected_
              /\ pubHandshake' = pubHandshake
        /\ published' # published =>
              /\ Len(publishLog') = Len(publishLog) + 1
              /\ LET e == publishLog'[Len(publishLog')]
                 IN /\ e.calls = 1
                    /\ e.outcome = "ok"
                    /\ e.id = published'
                    /\ queue'[Len(queue')].rk = e.call.routing_key
                    /\ tpc[e.thread] = "basic_publish" ]_vars

\* after a failed and a successful publish the publisher still holds its
\* connection and socket, and only the successful event is in the broker
C26_Witness ==
    /\ Len(publishLog) = 2
    /\ publishLog[1].outcome = "failed"
    /\ publishLog[2].outcome = "ok"
    /\ published = 1
    /\ pub_conn_ /\ pub_socket_ /\ pub_connected_
    /\ \A t \in Threads : tpc[t] = "idle"

WelcomePayload(body) ==
    LET j == JsonParse(body)
    IN /\ j.ok
       /\ j.type = "object"
       /\ "email" \in j.names
       /\ LastMember(j.text, "email").k = "str"
       /\ ContainsAt(LastMember(j.text, "email").s)
       /\ "username" \in j.names => LastMember(j.text, "username").k = "str"
       /\ "user_id" \in j.names => LastMember(j.text, "user_id").k = "int"

\* the text of a payload field, or the default when the field is missing
FieldOr(body, name, default) ==
    IF name \in JsonParse(body).names THEN LastMember(body, name).s
    ELSE default

C29_HandshakeOrder ==
    /\ connected_ =>
          /\ Len(handshake) = Len(HandshakeSteps)
          /\ \A i \in 1..Len(handshake) :
                /\ handshake[i].step = HandshakeSteps[i]
                /\ handshake[i].ok
          /\ bindings = RoutingKeys
    /\ deliveries # <<>> => bindings = RoutingKeys

\* the publishEvent calls whose event the broker queued, made for a user
\* whose stored e-mail address contains an "@"
QueuedEvents ==
    {k \in 1..Len(publishLog) :
        /\ publishLog[k].outcome = "ok"
        /\ publishLog[k].id # 0
        /\ ContainsAt(EmailOf(publishLog[k].user))}

\* C30: end-to-end data flow. With a connected publisher, a bound queue, a
\* running consumer in Configured mode and no override, the producer
\* publishes with the three bound routing keys only, and the event of each
\* successful registration, message creation or room join by a user whose
\* stored e-mail contains "@" is dispatched with exactly one sendEmail call
\* addressed to that e-mail: never otherwise, and eventually.
C30_EndToEnd ==
    /\ [](\A k \in 1..Len(publishLog) :
              publishLog[k].calls = 1 => publishLog[k].rk \in RoutingKeys)
    /\ [](
          LET \* the dispatches of message id that made exactly one sendEmail call, to
              \* the address to
              MailedTo(id, to) ==
                  {i \in 1..Len(dispatchLog) :
                      /\ dispatchLog[i].msg.id = id
                      /\ Len(dispatchLog[i].mail) = 1
                      /\ dispatchLog[i].mail[1].to = to}
          IN
          \A k \in QueuedEvents :
              \A i \in 1..Len(dispatchLog) :
                  dispatchLog[i].msg.id = publishLog[k].id =>
                      /\ MailedTo(publishLog[k].id,
                                  EmailOf(publishLog[k].user)) = {i}
                      /\ dispatchLog[i].msg.rk = publishLog[k].rk)
    /\ \A id \in 1..MaxMsgs :
          (/\ \E k \in QueuedEvents : publishLog[k].id = id
           /\ ConfiguredMode
           /\ InLoop(cpc))
          ~> (\/ \E k \in QueuedEvents :
                    /\ publishLog[k].id = id
                    /\ \E i \in 1..Len(dispatchLog) :
                          /\ dispatchLog[i].msg.id = id
                          /\ Len(dispatchLog[i].mail) = 1
                          /\ dispatchLog[i].mail[1].to
                                = EmailOf(publishLog[k].user)
              \/ ~InLoop(cpc))

C32_MessageDefaults ==
    LET \* the recipient sendMessageNotification resolves for a payload
        ResolvedRecipient(body) ==
            IF OverrideSet THEN testRecipient.val
            ELSE FieldOr(body, "sender_email", Str_empty)
    IN
        LET \* the payload is an object in which every field of the handler is absent
            \* or of its kind
            MessagePayload(body) ==
                LET \* the fields sendMessageNotification reads, with the kind of their values
                    MessageFields ==
                        [message_id |-> "int", room_id |-> "int", sender_username |-> "str",
                         sender_email |-> "str", room_name |-> "str", content |-> "str",
                         message_type |-> "str", timestamp |-> "str"]
                IN
                    LET j == JsonParse(body)
                    IN /\ j.ok
                       /\ j.type = "object"
                       /\ \A f \in DOMAIN MessageFields :
                             f \in j.names => LastMember(j.text, f).k = MessageFields[f]
        IN
            \A i \in 1..Len(dispatchLog) :
                LET e == dispatchLog[i]
                    b == e.msg.body
                IN (/\ ConfiguredMode
                    /\ e.msg.rk = "message.created"
                    /\ MessagePayload(b)
                    /\ ContainsAt(ResolvedRecipient(b)))
                   => /\ Len(e.mail) = 1
                      /\ e.mail[1].to = ResolvedRecipient(b)
                      /\ Contains(e.mail[1].subject,
                                  FieldOr(b, "room_name", Str_UnknownRoom))
                      /\ Contains(e.mail[1].body,
                                  <<"Room: ">> \o FieldOr(b, "room_name", Str_UnknownRoom)
                                      \o <<" (ID: ">> \o FieldOr(b, "room_id", Str_zero))
                      /\ Contains(e.mail[1].body,
                                  <<") From: ">>
                                      \o FieldOr(b, "sender_username", Str_UnknownUser))
                      /\ Contains(e.mail[1].body,
                                  <<" Message Type: ">>
                                      \o FieldOr(b, "message_type", Str_text)
                                      \o <<" Message: ">>
                                      \o FieldOr(b, "content", Str_empty)
                                      \o <<" Message ID: ">>
                                      \o FieldOr(b, "message_id", Str_zero)
                                      \o <<" Timestamp: ">>
                                      \o FieldOr(b, "timestamp", Str_NA))

\* a payload without message_id, sender_username, message_type and
\* timestamp led to one mail to the sender with the defaults in its body
C32_Witness ==
    /\ ConfiguredMode
    /\ ~OverrideSet
    /\ Len(dispatchLog) = 1
    /\ dispatchLog[1].msg.rk = "message.created"
    /\ dispatchLog[1].msg.body = Body_messagePart
    /\ Len(dispatchLog[1].mail) = 1
    /\ dispatchLog[1].mail[1].to = Str_ab
    /\ Contains(dispatchLog[1].mail[1].body, Str_UnknownUser)
    /\ Contains(dispatchLog[1].mail[1].body, Str_NA)

C34_OneJoinEventPerMembership ==
    LET \* the user.joined_room events the broker accepted for a room and a user
        JoinEvents(room, name) ==
            {k \in 1..Len(publishLog) :
                /\ publishLog[k].rk = "user.joined_room"
                /\ publishLog[k].calls = 1
                /\ publishLog[k].outcome = "ok"
                /\ publishLog[k].room = room
                /\ publishLog[k].user = name}
    IN
        \A room \in RoomIds, name \in UserNames :
            Cardinality(JoinEvents(room, name)) <= 1

\* C35: at most one user.registered event is published per username in every
\* interleaving of register requests: of the requests that passed the
\* getUserByUsername check only the one whose insert succeeds reaches
\* publishEvent, and a request whose insert finds the username stored ends
\* in a 500 response without a publishEvent call.
C35_OneRegisterEventPerUsername ==
    /\ [](
          LET \* the publishEvent calls made for the registration of a username
              RegisterEvents(name) ==
                  {k \in 1..Len(publishLog) :
                      /\ publishLog[k].rk = "user.registered"
                      /\ publishLog[k].user = name}
              \* the request threads between a successful insert of a username and the
              \* end of their publishEvent call
              RegisterPublishing(name) ==
                  {t \in Threads :
                      /\ tpc[t] \in {"publishEvent", "basic_publish"}
                      /\ targ[t].kind = "user.registered"
                      /\ targ[t].user = name}
          IN \A name \in UserNames :
                 Cardinality(RegisterEvents(name))
                     + Cardinality(RegisterPublishing(name)) <= 1)
    /\ [][
          LET \* thread t passed the getUserByUsername check and is about to insert a
              \* username that another request has stored since
              LosesInsert(t) ==
                  /\ tpc[t] = "write"
                  /\ targ[t].kind = "user.registered"
                  /\ targ[t].user \in users
          IN
          \A t \in Threads :
              (LosesInsert(t) /\ tpc'[t] \notin {"write", "crashed"}) =>
                  /\ tpc'[t] = "idle"
                  /\ publishLog' = publishLog
                  /\ responses' = Append(responses,
                        Response("user.registered", 500, "error", "none"))
         ]_vars

\* two register requests for bob passed the check: one has published its
\* event and got its success response, the other one was answered 500 after
\* that
C35_Witness ==
    /\ requests = 2
    /\ "bob" \in users
    /\ \E k \in 1..Len(publishLog) :
          /\ publishLog[k].rk = "user.registered"
          /\ publishLog[k].user = "bob"
          /\ publishLog[k].calls = 1
    /\ Len(responses) = 2
    /\ responses[1].kind = "user.registered"
    /\ responses[1].status = 201
    /\ responses[2] = Response("user.registered", 500, "error", "none")

\* C36: the connection flags are write-once. The consumer's connected_ is
\* set to true only by the last step of a handshake whose tested replies
\* all succeeded, and is never set back: isConnected() is still true after
\* the consume loop has ended on a broker error. The publisher's connected_
\* is never cleared either, so every publishEvent call after a failed one
\* still makes its broker call.
C36_WriteOnceFlags ==
    /\ [][connected_ => connected_']_vars
    /\ [][(~connected_ /\ connected_') =>
              /\ cpc = "basic_consume"
              /\ cpc' = "constructed"
              /\ Len(handshake') = Len(HandshakeSteps)
              /\ \A i \in 1..Len(handshake') :
                     handshake'[i].step \in CheckedSteps => handshake'[i].ok
         ]_vars
    /\ [](cpc = "returned" => isConnected)
    /\ [](exitStatus = 0 => isConnected)
    /\ [][pub_connected_ => pub_connected_']_vars
    /\ [](\A k \in 1..Len(publishLog) :
              publishLog[k].outcome = "failed" =>
                  /\ pub_connected_
                  /\ \A j \in (k + 1)..Len(publishLog) :
                         publishLog[j].calls = 1)

\* the consume loop has ended on a broker error with connected_ still set,
\* and the publisher made a broker call after a failed one
C36_Witness ==
    /\ cpc = "returned"
    /\ result = "library_error"
    /\ isConnected
    /\ pub_connected_
    /\ \E k \in 1..Len(publishLog) :
          /\ publishLog[k].outcome = "failed"
          /\ k < Len(publishLog)
          /\ publishLog[k + 1].calls = 1

\* C37: in the configured mode a user.registered event leads to a sendEmail
\* call if and only if its payload parses and its email field is a string
\* other than the sentinel "unknown@example.com".
C37_WelcomeIffEmail ==
    LET \* the dispatches of user.registered events in the configured mode
        WelcomeDispatches ==
            {i \in 1..Len(dispatchLog) :
                ConfiguredMode /\ dispatchLog[i].msg.rk = "user.registered"}
    IN
        LET \* the payload parses to an object whose email is a string other than the
            \* sentinel "unknown@example.com"
            HasEmail(body) ==
                LET j == JsonParse(body)
                IN /\ j.ok
                   /\ j.type = "object"
                   /\ "email" \in j.names
                   /\ LastMember(j.text, "email").k = "str"
                   /\ LastMember(j.text, "email").s # UnknownEmail
        IN
            \A i \in WelcomeDispatches :
                (Len(dispatchLog[i].mail) >= 1) <=> HasEmail(dispatchLog[i].msg.body)

\* C37 as amended: ... if and only if its payload parses, its email field is
\* a string other than the sentinel, and its username and user_id fields,
\* where present, are a string and a number. An event whose email is the
\* sentinel is skipped with the "No email provided" line.
C37_WelcomeIffReadable ==
    LET \* the dispatches of user.registered events in the configured mode
        WelcomeDispatches ==
            {i \in 1..Len(dispatchLog) :
                ConfiguredMode /\ dispatchLog[i].msg.rk = "user.registered"}
    IN
        LET \* the payload parses to an object whose email is a string other than the
            \* sentinel "unknown@example.com"
            HasEmail(body) ==
                LET j == JsonParse(body)
                IN /\ j.ok
                   /\ j.type = "object"
                   /\ "email" \in j.names
                   /\ LastMember(j.text, "email").k = "str"
                   /\ LastMember(j.text, "email").s # UnknownEmail
        IN
            LET \* username and user_id, where the payload has them, convert to the
                \* std::string and the int the handler reads them into
                ReadableUserFields(body) ==
                    LET j == JsonParse(body)
                    IN /\ "username" \in j.names => LastMember(j.text, "username").k = "str"
                       /\ "user_id" \in j.names => LastMember(j.text, "user_id").k = "int"
            IN
                \A i \in WelcomeDispatches :
                    LET e == dispatchLog[i]
                    IN /\ (Len(e.mail) = 1) <=>
                              (HasEmail(e.msg.body) /\ ReadableUserFields(e.msg.body))
                       /\ Len(e.mail) <= 1
                       /\ (/\ JsonParse(e.msg.body).ok
                           /\ JsonParse(e.msg.body).type = "object"
                           /\ ReadableUserFields(e.msg.body)
                           /\ "email" \in JsonParse(e.msg.body).names
                           /\ LastMember(e.msg.body, "email") = StrTok(UnknownEmail))
                          => (e.mail = <<>> /\ e.logs = <<"No email provided">>)

\* a payload with the sentinel email, a username and a user id was
\* dispatched in the configured mode and skipped without a sendEmail call
C37_Witness ==
    LET \* the dispatches of user.registered events in the configured mode
        WelcomeDispatches ==
            {i \in 1..Len(dispatchLog) :
                ConfiguredMode /\ dispatchLog[i].msg.rk = "user.registered"}
    IN
        /\ WelcomeDispatches = {1}
        /\ dispatchLog[1].msg.body = Body_aliceSentinel
        /\ dispatchLog[1].mail = <<>>
        /\ dispatchLog[1].exc = "none"

====
